---- MODULE Spec2Model ----
(***************************************************************************)
(* Verification model of the cmax-arena deterministic match core:          *)
(*   - runMatch (packages/core/src/orchestrator.ts), one action per        *)
(*     suspension point of the turn loop;                                  *)
(*   - replayMatch (core replay verifier), a pure function of the log;     *)
(*   - the game definitions the core is exercised with: the orchestrator   *)
(*     test game, Rock-Paper-Scissors and Kuhn Poker;                      *)
(*   - JSON.stringify / hashObject / actionEquals on a tagged JSON value   *)
(*     model, objects keeping their insertion order.                       *)
(***************************************************************************)
EXTENDS Integers, Sequences, FiniteSets, TLC

VARIABLES
  input,        \* arguments of runMatch: game, seed, gameConfig, options.matchId
  wall,         \* this run's wall-clock reading (Date / performance.now): 0 in
                \* the first run, anything up to MaxWall in the repeated one
  pc,           \* position of runMatch: init, loop, awaiting, done, rejected, threw
  matchId,      \* matchId of the running match
  state,        \* game state held by the turn loop
  turnIndex,    \* turnIndex of the turn loop
  events,       \* the events array of runMatch
  onEventCalls, \* arguments of the options.onEvent calls, in call order
  pending,      \* DecideInput of the decide call being awaited
  script,       \* what the agents did at each turn of the first run
  stepCalls,    \* number of game.step calls made by runMatch
  lastStep,     \* arguments of the latest game.step call made by runMatch
  run,          \* 1 for the first runMatch call, 2 for the repeated one
  firstEvents,  \* report.events of the first run, kept for the comparison
  verdict,      \* outcome of a replayMatch call on the (possibly altered) log
  inflight,     \* the decide calls that lost the race against the timer
  runner,       \* the runner's onEvent (runMatchWithGame) when it is the
                \* options.onEvent of the match: counter, log lines, inserts
  ladder,       \* runLadder: its arguments, loop position and matches so far
  ratings,      \* the players of an EloRatings instance (createEloRatings)
  rng,          \* Rng instances (createRng): seed, state, values drawn
  objects,      \* values handed to hashObject
  queue         \* the runner service: activeMatches, the matches table, the
                \* interval callbacks of startPolling

vars == <<input, wall, pc, matchId, state, turnIndex, events, onEventCalls,
          pending, script, stepCalls, lastStep, run, firstEvents, verdict,
          inflight, runner, ladder, ratings, rng, objects, queue>>

\* the state of the library functions and of the runner service, which a
\* match does not touch
libVars == <<ladder, ratings, rng, objects, queue>>

\* the state of a match
matchVars == <<input, wall, pc, matchId, state, turnIndex, events, onEventCalls,
               pending, script, stepCalls, lastStep, run, firstEvents, verdict,
               inflight, runner>>

-----------------------------------------------------------------------------
(* Bounds of the model *)

\* largest RPS config.rounds explored
MaxRounds == 1

\* largest wall-clock reading (abstract milliseconds) a run can observe
MaxWall == 1

\* defects one damaged log carries at most
MaxDefects == 2

\* most hands of Hold'em played
MaxHands == 2

\* most steps of Hold'em taken at a small table
MaxTurns == 12

\* most steps of Hold'em taken at a table with large stacks
MaxDeepTurns == 4

\* most seats of the small Hold'em tables
MaxSeats == 3

\* startingChips of the small Hold'em tables
SmallStack == 4

-----------------------------------------------------------------------------
(* JSON values.  Objects are sequences of <<key, value>> pairs in insertion *)
(* order; the tag k is compared before the payload v.                      *)

Num(n) == [k |-> "num", v |-> n]
Str(s) == [k |-> "str", v |-> s]
Bool(b) == [k |-> "bool", v |-> b]
Null == [k |-> "null", v |-> 0]
Undef == [k |-> "undef", v |-> 0]
Arr(xs) == [k |-> "arr", v |-> xs]
Obj(ps) == [k |-> "obj", v |-> ps]

HasKey(o, key) == \E i \in 1..Len(o.v) : o.v[i][1] = key

Get(o, key) ==
  IF HasKey(o, key)
  THEN o.v[CHOOSE i \in 1..Len(o.v) : o.v[i][1] = key][2]
  ELSE Undef

\* Object.keys(obj): own keys in insertion order
ObjectKeys(o) == [i \in 1..Len(o.v) |-> o.v[i][1]]

\* every object key the model uses, in Array.prototype.sort() order
\* (UTF-16 code unit order)
KeyOrder ==
  << "action", "actions", "canBet", "canCall", "canCheck", "canFold", "card",
     "cards", "config", "data", "draws", "history", "id", "losses", "moves",
     "myBet", "myCard", "myCardName", "myMove", "myScore", "opponentBet",
     "opponentMove", "opponentScore", "player0", "player1", "playerId", "pot",
     "result", "round", "rounds", "showPreviousMoves", "showdown",
     "totalRounds", "type", "version", "winner", "wins" >>

InSeq(x, s) == \E i \in 1..Len(s) : s[i] = x

\* keys.sort()
SortKeys(keys) == SelectSeq(KeyOrder, LAMBDA key : InSeq(key, keys))

RECURSIVE JsonText(_, _, _)
RECURSIVE JsonElems(_, _, _, _)
RECURSIVE JsonProps(_, _, _, _, _)

\* the elements of an array from index i on, comma separated; undefined
\* elements are written as null
JsonElems(xs, i, useList, list) ==
  IF i > Len(xs) THEN ""
  ELSE (IF i > 1 THEN "," ELSE "")
       \o (IF xs[i].k = "undef" THEN "null" ELSE JsonText(xs[i], useList, list))
       \o JsonElems(xs, i + 1, useList, list)

\* the properties of object o named by keys[i..], in that order; a property
\* that is absent or undefined is skipped
JsonProps(o, keys, i, useList, list) ==
  IF i > Len(keys) THEN ""
  ELSE LET val == Get(o, keys[i])
           rest == JsonProps(o, keys, i + 1, useList, list)
       IN IF val.k = "undef" THEN rest
          ELSE "\"" \o keys[i] \o "\":" \o JsonText(val, useList, list)
               \o (IF rest = "" THEN "" ELSE "," \o rest)

\* JSON.stringify(val) when useList is FALSE, JSON.stringify(val, list) when
\* it is TRUE: with an array replacer every object, at every depth, is
\* written with the listed keys only, in the order of the list.
\* JSON.stringify(undefined) is the value undefined, written "undefined"
\* here: no JSON text is equal to it.
JsonText(val, useList, list) ==
  CASE val.k = "num" -> ToString(val.v)
    [] val.k = "str" -> "\"" \o val.v \o "\""
    [] val.k = "bool" -> (IF val.v THEN "true" ELSE "false")
    [] val.k = "null" -> "null"
    [] val.k = "undef" -> "undefined"
    [] val.k = "arr" -> "[" \o JsonElems(val.v, 1, useList, list) \o "]"
    [] val.k = "obj" ->
         "{" \o JsonProps(val, IF useList THEN list ELSE ObjectKeys(val), 1,
                          useList, list) \o "}"

JSONstringify(val) == JsonText(val, FALSE, << >>)

\* sha256(input): the digests of the seeds the model uses are the real ones;
\* any other input hashes to a term that names it (no collisions)
sha256(text) ==
  CASE text = "test-seed" ->
         "d63cd08d82aa4eb48e0cc64fb466e909bfc3879664c5caa8d8cdeda73c044190"
    [] text = "abc" ->
         "ba7816bf8f01cfea414140de5dae2223b00361a396177a9cb410ff61f20015ad"
    [] text = "seed-a" ->
         "e00961cc04e55c4533144d93fda113d960b6ad37e54a86a41bbba4f031e29d92"
    [] text = "seed-b" ->
         "04f5d0e8d9ed2af7d1bb4641b2e4bd62d4501d6cfd3d65bbab785b3501c9426b"
    [] text = "range-test" ->
         "0648560fc0cf73cf6fd40fc0a746606149202b633311d71afd263ff266b46a9f"
    [] text = "random-agent:match_0_i:0" ->
         "95a190a3219d34aa007dc1526ae38634f4b1bcd77f9d6310582655aaa02237db"
    [] text = "random-agent:match_0_i:1" ->
         "b1143c97ac7ed89e5d2249cca3267c43147c36cc8382572e9d2d6b9ac83d6a0f"
    [] text = "random-agent:match_0_i:2" ->
         "bd2bbdf592629f871e68dc325e75edf2417b0cfc02f06d3ee238ed447a41b83a"
    [] text = "random-agent:match_0_i:3" ->
         "4702cb8910250c9e8f3cb5ce679e3be1239c0700ce747ee45f1843d34df03738"
    [] text = "random-agent:match_1_i:0" ->
         "cbc4670438fa8e2c5a3415e34c00b3c39a254dd5f6a7735751cec5f740a40f63"
    [] text = "random-agent:match_1_i:1" ->
         "9870726680ced25d6cea881f8658b1446d0e3855ab581e1a12bfbc87517f70ed"
    [] text = "random-agent:match_1_i:2" ->
         "a9780e4db102fa1967b65474abc3f25a8b00d445cd5ec85186993c9eb7c9be11"
    [] text = "random-agent:match_1_i:3" ->
         "b327d19c836adf75fff0e2f0c4ba8c32e37883a287348868aa7beb5f3a93b569"
    [] text = "random-agent:match_2_i:0" ->
         "3ad3bbb181d509d4498c0728b9f39538dc85f3f7927a9c79f9c356580d015232"
    [] text = "random-agent:match_2_i:1" ->
         "de2fa6a82c6cbf9155e786567cc46e87c7246b16ce4a8e8780d2b1733c1ccf0c"
    [] text = "random-agent:match_2_i:2" ->
         "237307e4e8e0eb650889162be367a2f7f65def963aba8ee5694a2af6a0883496"
    [] text = "random-agent:match_2_i:3" ->
         "8ecae08e9450723634f40efbf0745b6f25195011555f6c07443032939ed20fe7"
    [] text = "random-agent:match_3_i:0" ->
         "ac74bb72e3583e4995ae6dc97fbed3986a28ef5bb6c8c1d910211d905eb1d5f7"
    [] text = "random-agent:match_3_i:1" ->
         "7b6fbb8f6eeb2100ea729220b0d526be0aec0dd140885f0a3ad3ec9d5caf4f3c"
    [] text = "random-agent:match_3_i:2" ->
         "8872a0de26886e8ec1a7584f553e71d2bf20a11e923eec7050449e88c6813d68"
    [] text = "random-agent:match_3_i:3" ->
         "86a32f30ccb5343c9e36862e83f1f1ef5b2aa24640ffa0be6e3a5ee82c4fadde"
    [] text = "random-agent:match_0_vi:0" ->
         "5363eaa3ed393658ce66f0a0eb4db761f9f4febc182a110953b752330d5fecba"
    [] text = "random-agent:match_0_vi:1" ->
         "953dec73afdea8a22f88cd5505a743c7fed294d4d15e03fd11e75bbb8d4808fc"
    [] text = "random-agent:match_0_vi:2" ->
         "81c548121973e392b5523f9010be6862733436ac3f3bd61480a69b00155d8f43"
    [] text = "random-agent:match_0_vi:3" ->
         "9c90b1a1c9d9e5c91c9beea21991984c535e747ae52200c81396e45ef39d9764"
    [] text = "random-agent:match_1_vi:0" ->
         "41a37d5ded3ed47dbfff0eb2458b5f72f1cf5b6144aab599834c09ccacafa9aa"
    [] text = "random-agent:match_1_vi:1" ->
         "be944bd458891c96c3c991d162658072ac8e2d4e71eed4cc762a9f1fa9d2a244"
    [] text = "random-agent:match_1_vi:2" ->
         "836a526491e8eb9ac707e40b723edbcf1e2a6112025b332bcc1140bd03f67d48"
    [] text = "random-agent:match_1_vi:3" ->
         "c64d3ea4bb7e41030f74c08bbbe5e4ac77b90d98ca83e023d2bd898503a9af05"
    [] text = "random-agent:match_2_vi:0" ->
         "bd04bd0faf083df6d7c5ad3624dbc3e17be4ba5b9640fd746f7d3415339af412"
    [] text = "random-agent:match_2_vi:1" ->
         "fe9b9ea280e9348bcb69324e378069614a1d4de4c2362b869321f9af98f4988a"
    [] text = "random-agent:match_2_vi:2" ->
         "6c26263c4a7af5803bcc6412f812731af134bb8bf2339bc8bb308e17ae13383d"
    [] text = "random-agent:match_2_vi:3" ->
         "6d7f24f682f7d396bca3060fe6e2c213e93ac65afa8c85f90c097157ebd9db12"
    [] text = "random-agent:match_3_vi:0" ->
         "19e6451a677a47739624d6f3a445286009845c97774027c3cd3b8f1128ce5743"
    [] text = "random-agent:match_3_vi:1" ->
         "c57cc374239be8ae6a10f3b589b12c3c6611cfe91c56f31dd3038a7581f6d97e"
    [] text = "random-agent:match_3_vi:2" ->
         "90a9f13b5b168ffe144e6dbf15792c8cb0ae18ec5f7e4c983151c85176d4ff20"
    [] text = "random-agent:match_3_vi:3" ->
         "c16e84f60b4297998ae32a1d4cab9f5e8005f7e9fba3993fdcd1b2d5a00b7341"
    [] OTHER -> "sha256(" \o text \o ")"

\* a verification that compares the seed itself with the commitment
verifySeedUnhashed(s, commitment) == s = commitment

commitSeed(s) == sha256(s)

verifySeed(s, commitment) == sha256(s) = commitment

\* a hashObject that writes the keys as the object lists them
hashObjectUnsorted(obj) == sha256(JSONstringify(obj))

hashObject(obj) == sha256(JsonText(obj, TRUE, SortKeys(ObjectKeys(obj))))

agentFingerprint(a) ==
  sha256(JSONstringify(Obj(<< <<"id", Str(a.id)>>, <<"version", Str(a.version)>>,
                              <<"config", a.config>> >>)))

actionEquals(a, b) == JSONstringify(a) = JSONstringify(b)

isLegalAction(action, legal) ==
  \E i \in 1..Len(legal) : actionEquals(action, legal[i])

-----------------------------------------------------------------------------
(* Game definitions.  A player id is 0 or 1; sequences are indexed from 1,  *)
(* so seat p is element p + 1.  An operation that can throw returns a      *)
(* record whose ok field is FALSE when it throws.                          *)

Threw == [ok |-> FALSE]

PlayerResult(pid, score, rank, stats) ==
  [playerId |-> Num(pid), score |-> score, rank |-> Num(rank), stats |-> stats]

\* a > b on JavaScript values: numeric comparison, null counting as 0; false
\* when an operand converts to NaN
IsNumeric(a) == a.k = "num" \/ a.k = "null"
JsGt(a, b) == IsNumeric(a) /\ IsNumeric(b) /\ a.v > b.v
JsGe(a, b) == IsNumeric(a) /\ IsNumeric(b) /\ a.v >= b.v

(* ---- test game of the orchestrator tests: each player picks a number ---- *)

TestReset == [ok |-> TRUE, state |-> [moves |-> <<Null, Null>>, done |-> FALSE]]

TestObserve(s, p) ==
  Obj(<< <<"playerId", Num(p)>>, <<"myMove", s.moves[p + 1]>> >>)

TestLegalActions == <<Num(1), Num(2), Num(3)>>

TestCurrentPlayer(s) ==
  IF s.done THEN Null
  ELSE IF s.moves[1] = Null THEN Num(0)
  ELSE IF s.moves[2] = Null THEN Num(1)
  ELSE Null

TestStep(s, p, action) ==
  LET newMoves == [s.moves EXCEPT ![p + 1] = action]
  IN [ok |-> TRUE,
      state |-> [moves |-> newMoves,
                 done |-> newMoves[1] # Null /\ newMoves[2] # Null],
      events |-> Undef]

TestIsTerminal(s) == s.done

TestGetResults(s) ==
  LET m0 == s.moves[1]
      m1 == s.moves[2]
      winner == IF JsGt(m0, m1) THEN Num(0)
                ELSE IF JsGt(m1, m0) THEN Num(1) ELSE Null
  IN IF m0 = Null \/ m1 = Null THEN Threw
     ELSE [ok |-> TRUE,
           results |->
             [players |-> << PlayerResult(0, m0, IF JsGe(m0, m1) THEN 1 ELSE 2, Undef),
                             PlayerResult(1, m1, IF JsGe(m1, m0) THEN 1 ELSE 2, Undef) >>,
              winner |-> winner,
              isDraw |-> Bool(winner = Null)]]

(* ---- Rock-Paper-Scissors ---- *)

LEGAL_ACTIONS == <<Str("rock"), Str("paper"), Str("scissors")>>

\* the move that move0 beats
RpsBeats(move0) ==
  CASE move0 = Str("rock") -> Str("scissors")
    [] move0 = Str("paper") -> Str("rock")
    [] move0 = Str("scissors") -> Str("paper")

getWinner(move0, move1) ==
  IF move0 = move1 THEN Null
  ELSE IF RpsBeats(move0) = move1 THEN Num(0) ELSE Num(1)

\* { ...DEFAULT_CONFIG, ...config }
RpsMergedConfig(config) ==
  LET given(key) == config.k = "obj" /\ Get(config, key) # Undef
  IN [rounds |-> IF given("rounds") THEN Get(config, "rounds").v ELSE 10,
      showPreviousMoves |-> IF given("showPreviousMoves")
                            THEN Get(config, "showPreviousMoves").v ELSE TRUE]

RpsReset(config, numPlayers) ==
  IF numPlayers # 2 THEN Threw
  ELSE [ok |-> TRUE,
        state |-> [round |-> 1,
                   totalRounds |-> RpsMergedConfig(config).rounds,
                   showPreviousMoves |-> RpsMergedConfig(config).showPreviousMoves,
                   scores |-> <<0, 0>>,
                   history |-> << >>,
                   currentMoves |-> <<Null, Null>>,
                   phase |-> "playing"]]

RpsHistoryEntry(h, p) ==
  LET opp == 1 - p
  IN Obj(<< <<"myMove", h.moves[p + 1]>>,
            <<"opponentMove", h.moves[opp + 1]>>,
            <<"result", IF h.winner = Null THEN Str("draw")
                        ELSE IF h.winner = Num(p) THEN Str("win")
                        ELSE Str("loss")>> >>)

RpsObserve(s, p) ==
  LET opp == 1 - p
      base == << <<"round", Num(s.round)>>,
                 <<"totalRounds", Num(s.totalRounds)>>,
                 <<"myScore", Num(s.scores[p + 1])>>,
                 <<"opponentScore", Num(s.scores[opp + 1])>> >>
  IN IF s.showPreviousMoves /\ Len(s.history) > 0
     THEN Obj(Append(base,
            <<"history",
              Arr([i \in 1..Len(s.history) |-> RpsHistoryEntry(s.history[i], p)])>>))
     ELSE Obj(base)

RpsLegalActions(s) == IF s.phase = "finished" THEN << >> ELSE LEGAL_ACTIONS

RpsCurrentPlayer(s) ==
  IF s.phase = "finished" THEN Null
  ELSE IF s.currentMoves[1] = Null THEN Num(0)
  ELSE IF s.currentMoves[2] = Null THEN Num(1)
  ELSE Null

RpsStep(s, p, action) ==
  IF ~InSeq(action, LEGAL_ACTIONS) THEN Threw
  ELSE
    LET newMoves == [s.currentMoves EXCEPT ![p + 1] = action]
    IN IF newMoves[1] # Null /\ newMoves[2] # Null
       THEN
         LET winner == getWinner(newMoves[1], newMoves[2])
             newScores == IF winner = Null THEN s.scores
                          ELSE [s.scores EXCEPT ![winner.v + 1] = @ + 1]
             isFinished == s.round >= s.totalRounds
         IN [ok |-> TRUE,
             state |-> [s EXCEPT
                          !.round = IF isFinished THEN s.round ELSE s.round + 1,
                          !.scores = newScores,
                          !.history = Append(s.history,
                                             [moves |-> newMoves, winner |-> winner]),
                          !.currentMoves = <<Null, Null>>,
                          !.phase = IF isFinished THEN "finished" ELSE "playing"],
             events |->
               Arr(<< Obj(<< <<"type", Str("ROUND_END")>>,
                            <<"data",
                              Obj(<< <<"round", Num(s.round)>>,
                                     <<"moves", Obj(<< <<"player0", newMoves[1]>>,
                                                      <<"player1", newMoves[2]>> >>)>>,
                                     <<"winner", winner>> >>)>> >>) >>)]
       ELSE [ok |-> TRUE,
             state |-> [s EXCEPT !.currentMoves = newMoves],
             events |-> Undef]

RpsIsTerminal(s) == s.phase = "finished"

RpsStats(s, mine, theirs) ==
  Obj(<< <<"wins", Num(mine)>>, <<"losses", Num(theirs)>>,
         <<"draws", Num(s.totalRounds - mine - theirs)>> >>)

RpsGetResults(s) ==
  LET score0 == s.scores[1]
      score1 == s.scores[2]
  IN [ok |-> TRUE,
      results |->
        [players |->
           << PlayerResult(0, Num(score0), IF score0 >= score1 THEN 1 ELSE 2,
                           RpsStats(s, score0, score1)),
              PlayerResult(1, Num(score1), IF score1 >= score0 THEN 1 ELSE 2,
                           RpsStats(s, score1, score0)) >>,
         winner |-> IF score0 > score1 THEN Num(0)
                    ELSE IF score1 > score0 THEN Num(1) ELSE Null,
         isDraw |-> Bool(score0 = score1)]]

(* ---- Kuhn Poker ---- *)

\* createRng(seed).shuffle([1, 2, 3]): the Fisher-Yates shuffle driven by the
\* xorshift128+ stream of the seed, computed for the seeds the model uses
KuhnShuffledDeck(s) ==
  CASE s = "test-seed" -> <<2, 3, 1>>
    [] s = "abc" -> <<3, 1, 2>>

CARD_NAMES(card) ==
  CASE card = 1 -> "Jack"
    [] card = 2 -> "Queen"
    [] card = 3 -> "King"

getLegalActions(phase) ==
  CASE phase = "p0_action" -> <<Str("check"), Str("bet")>>
    [] phase = "p1_after_check" -> <<Str("check"), Str("bet")>>
    [] phase = "p0_after_bet" -> <<Str("call"), Str("fold")>>
    [] phase = "p1_after_bet" -> <<Str("call"), Str("fold")>>
    [] OTHER -> << >>

getCurrentPlayer(phase) ==
  CASE phase = "p0_action" -> Num(0)
    [] phase = "p1_after_check" -> Num(1)
    [] phase = "p0_after_bet" -> Num(0)
    [] phase = "p1_after_bet" -> Num(1)
    [] OTHER -> Null

KuhnReset(s, numPlayers) ==
  IF numPlayers # 2 THEN Threw
  ELSE LET shuffled == KuhnShuffledDeck(s)
       IN [ok |-> TRUE,
           state |-> [cards |-> <<shuffled[1], shuffled[2]>>,
                      pot |-> 2,
                      bets |-> <<1, 1>>,
                      phase |-> "p0_action",
                      winner |-> Null,
                      history |-> << >>]]

KuhnObserve(s, p) ==
  LET opp == 1 - p
      legal == getLegalActions(s.phase)
      myCard == s.cards[p + 1]
  IN Obj(<< <<"myCard", Num(myCard)>>,
            <<"myCardName", Str(CARD_NAMES(myCard))>>,
            <<"pot", Num(s.pot)>>,
            <<"myBet", Num(s.bets[p + 1])>>,
            <<"opponentBet", Num(s.bets[opp + 1])>>,
            <<"history", Arr(s.history)>>,
            <<"canCheck", Bool(InSeq(Str("check"), legal))>>,
            <<"canBet", Bool(InSeq(Str("bet"), legal))>>,
            <<"canCall", Bool(InSeq(Str("call"), legal))>>,
            <<"canFold", Bool(InSeq(Str("fold"), legal))>> >>)

KuhnShowdownWinner(s) == IF s.cards[1] > s.cards[2] THEN Num(0) ELSE Num(1)

\* the switch of step: [phase, pot, bets, winner] after the action; an action
\* that no branch names leaves them as they were, with winner null
KuhnApply(s, action) ==
  LET same == [phase |-> s.phase, pot |-> s.pot, bets |-> s.bets, winner |-> Null]
      bet(i, ph, w) == [phase |-> ph, pot |-> s.pot + 1,
                        bets |-> [s.bets EXCEPT ![i + 1] = @ + 1], winner |-> w]
  IN CASE s.phase = "p0_action" /\ action = Str("check") ->
            [same EXCEPT !.phase = "p1_after_check"]
       [] s.phase = "p0_action" /\ action = Str("bet") ->
            bet(0, "p1_after_bet", Null)
       [] s.phase = "p1_after_check" /\ action = Str("check") ->
            [same EXCEPT !.phase = "showdown", !.winner = KuhnShowdownWinner(s)]
       [] s.phase = "p1_after_check" /\ action = Str("bet") ->
            bet(1, "p0_after_bet", Null)
       [] s.phase = "p1_after_bet" /\ action = Str("fold") ->
            [same EXCEPT !.phase = "folded", !.winner = Num(0)]
       [] s.phase = "p1_after_bet" /\ action = Str("call") ->
            bet(1, "showdown", KuhnShowdownWinner(s))
       [] s.phase = "p0_after_bet" /\ action = Str("fold") ->
            [same EXCEPT !.phase = "folded", !.winner = Num(1)]
       [] s.phase = "p0_after_bet" /\ action = Str("call") ->
            bet(0, "showdown", KuhnShowdownWinner(s))
       [] OTHER -> same

KuhnStep(s, p, action) ==
  LET n == KuhnApply(s, action)
      actionEvent ==
        Obj(<< <<"type", Str("ACTION")>>,
               <<"data", Obj(<< <<"playerId", Num(p)>>, <<"action", action>>,
                                <<"pot", Num(n.pot)>> >>)>> >>)
      handEnd ==
        Obj(<< <<"type", Str("HAND_END")>>,
               <<"data",
                 Obj(<< <<"winner", n.winner>>, <<"pot", Num(n.pot)>>,
                        <<"cards", Obj(<< <<"player0", Num(s.cards[1])>>,
                                         <<"player1", Num(s.cards[2])>> >>)>>,
                        <<"showdown", Bool(n.phase = "showdown")>> >>)>> >>)
  IN [ok |-> TRUE,
      state |-> [cards |-> s.cards, pot |-> n.pot, bets |-> n.bets,
                 phase |-> n.phase, winner |-> n.winner,
                 history |-> Append(s.history, action)],
      events |-> Arr(IF n.winner # Null THEN <<actionEvent, handEnd>>
                     ELSE <<actionEvent>>)]

KuhnIsTerminal(s) == s.phase = "showdown" \/ s.phase = "folded"

\* state.history.filter((_, i) => i % 2 === parity || state.history.length <= 2)
KuhnActionsOf(s, parity) ==
  LET idx == SelectSeq([i \in 1..Len(s.history) |-> i],
                       LAMBDA i : (i - 1) % 2 = parity \/ Len(s.history) <= 2)
  IN Arr([j \in 1..Len(idx) |-> s.history[idx[j]]])

KuhnGetResults(s) ==
  IF s.winner = Null THEN Threw
  ELSE
    LET loser == IF s.winner = Num(0) THEN 1 ELSE 0
        winnerProfit == s.bets[loser + 1]
        stats(i) == Obj(<< <<"card", Str(CARD_NAMES(s.cards[i + 1]))>>,
                           <<"actions", KuhnActionsOf(s, i)>> >>)
        entry(i) ==
          PlayerResult(i,
                       Num(IF s.winner = Num(i) THEN winnerProfit ELSE 0 - s.bets[i + 1]),
                       IF s.winner = Num(i) THEN 1 ELSE 2,
                       stats(i))
    IN [ok |-> TRUE,
        results |-> [players |-> <<entry(0), entry(1)>>,
                     winner |-> s.winner,
                     isDraw |-> Bool(FALSE)]]

(* ---- the GameDefinition interface, dispatched on the game id ---- *)

GameIds == {"test_game", "rps", "kuhn_poker"}

GameVersion(g) == "1.0.0"

Reset(g, s, config, numPlayers) ==
  CASE g = "test_game" -> TestReset
    [] g = "rps" -> RpsReset(config, numPlayers)
    [] g = "kuhn_poker" -> KuhnReset(s, numPlayers)

Observe(g, s, p) ==
  CASE g = "test_game" -> TestObserve(s, p)
    [] g = "rps" -> RpsObserve(s, p)
    [] g = "kuhn_poker" -> KuhnObserve(s, p)

LegalActions(g, s, p) ==
  CASE g = "test_game" -> TestLegalActions
    [] g = "rps" -> RpsLegalActions(s)
    [] g = "kuhn_poker" -> getLegalActions(s.phase)

CurrentPlayer(g, s) ==
  CASE g = "test_game" -> TestCurrentPlayer(s)
    [] g = "rps" -> RpsCurrentPlayer(s)
    [] g = "kuhn_poker" -> getCurrentPlayer(s.phase)

Step(g, s, p, action) ==
  CASE g = "test_game" -> TestStep(s, p, action)
    [] g = "rps" -> RpsStep(s, p, action)
    [] g = "kuhn_poker" -> KuhnStep(s, p, action)

IsTerminal(g, s) ==
  CASE g = "test_game" -> TestIsTerminal(s)
    [] g = "rps" -> RpsIsTerminal(s)
    [] g = "kuhn_poker" -> KuhnIsTerminal(s)

GetResults(g, s) ==
  CASE g = "test_game" -> TestGetResults(s)
    [] g = "rps" -> RpsGetResults(s)
    [] g = "kuhn_poker" -> KuhnGetResults(s)

-----------------------------------------------------------------------------
(* runMatch *)

DEFAULT_TIMEOUT_MS == 5000

Agents ==
  << [id |-> "agent1", version |-> "1.0.0", displayName |-> "Agent 1", config |-> Undef],
     [id |-> "agent2", version |-> "1.0.0", displayName |-> "Agent 2", config |-> Undef] >>

\* options.seed for each game: only Kuhn Poker reads the seed
Seeds(g) == IF g = "kuhn_poker" THEN {"test-seed", "abc"} ELSE {"test-seed"}

\* options.gameConfig for each game
GameConfigs(g) ==
  IF g = "rps"
  THEN {Obj(<< <<"rounds", Num(r)>>, <<"showPreviousMoves", Bool(b)>> >>) :
          r \in 1..MaxRounds, b \in BOOLEAN}
  ELSE {Undef}

InputsOf(g) ==
  {[game |-> g, seed |-> s, gameConfig |-> c, matchId |-> m] :
     s \in Seeds(g), c \in GameConfigs(g), m \in {Str("m1"), Undef}}

Inputs == UNION {InputsOf(g) : g \in GameIds}

\* the digits of Number.prototype.toString(36)
DIGITS36 ==
  << "0", "1", "2", "3", "4", "5", "6", "7", "8", "9", "a", "b", "c", "d", "e", "f",
     "g", "h", "i", "j", "k", "l", "m", "n", "o", "p", "q", "r", "s", "t", "u", "v",
     "w", "x", "y", "z" >>

\* n.toString(36) of a whole number
RECURSIVE ToString36(_)
ToString36(n) ==
  IF n < 36 THEN DIGITS36[n + 1]
  ELSE ToString36(n \div 36) \o DIGITS36[(n % 36) + 1]

\* the values Math.random() returns in the model, in eighths: 1/2 and 7/8
MathRandoms == {4, 7}

\* x.toString(36).substring(2, 10) of the fraction x = num / 8 below 1: the
\* text is "0." and the base-36 digits of x, of which the first eight are
\* kept ("0" alone for x = 0, of which nothing is kept)
RECURSIVE FractionDigits36(_, _)
FractionDigits36(num, room) ==
  IF num = 0 \/ room = 0 THEN ""
  ELSE DIGITS36[((num * 36) \div 8) + 1] \o FractionDigits36((num * 36) % 8, room - 1)

\* generateMatchId(): `match_${Date.now().toString(36)}_${Math.random()
\* .toString(36).substring(2, 10)}`; random is Math.random() in eighths
generateMatchId(clock, random) ==
  "match_" \o ToString36(clock) \o "_" \o FractionDigits36(random, 8)

\* a run that draws a fresh id although options.matchId was given
ResolveMatchIdAlwaysFresh(in, clock, random) == generateMatchId(clock, random)

\* options.matchId ?? generateMatchId()
ResolveMatchId(in, clock, random) ==
  IF in.matchId # Undef THEN in.matchId.v ELSE generateMatchId(clock, random)

agentMetas ==
  [i \in 1..Len(Agents) |->
     [id |-> Agents[i].id, version |-> Agents[i].version,
      displayName |-> Agents[i].displayName,
      fingerprint |-> agentFingerprint(Agents[i])]]

MatchStartEvent(in, id, clock) ==
  [type |-> "MATCH_START", matchId |-> id, startedAt |-> clock,
   gameId |-> in.game, gameVersion |-> GameVersion(in.game),
   agents |-> agentMetas, seedCommit |-> commitSeed(in.seed),
   config |-> in.gameConfig]

\* a TURN event numbered after turnIndex++ instead of before
TurnEventNumberedLate(ti, p, observation, action, timingMs, timedOut, illegalAction, originalAction, gameEvents) ==
  [type |-> "TURN", turnIndex |-> ti + 1, playerId |-> p,
   observationHash |-> hashObject(observation), action |-> action,
   timingMs |-> timingMs, timedOut |-> timedOut, illegalAction |-> illegalAction,
   originalAction |-> IF illegalAction THEN originalAction ELSE Undef,
   events |-> gameEvents]

\* a TURN event that logs what the agent answered instead of what was stepped
TurnEventLogsAnswer(ti, p, observation, action, timingMs, timedOut, illegalAction, originalAction, gameEvents) ==
  [type |-> "TURN", turnIndex |-> ti, playerId |-> p,
   observationHash |-> hashObject(observation),
   action |-> IF illegalAction THEN originalAction ELSE action,
   timingMs |-> timingMs, timedOut |-> timedOut, illegalAction |-> illegalAction,
   originalAction |-> IF illegalAction THEN originalAction ELSE Undef,
   events |-> gameEvents]

TurnEvent(ti, p, observation, action, timingMs, timedOut, illegalAction, originalAction, gameEvents) ==
  [type |-> "TURN", turnIndex |-> ti, playerId |-> p,
   observationHash |-> hashObject(observation), action |-> action,
   timingMs |-> timingMs, timedOut |-> timedOut, illegalAction |-> illegalAction,
   originalAction |-> IF illegalAction THEN originalAction ELSE Undef,
   events |-> gameEvents]

MatchEndEvent(s, results, totalTurns, totalTimeMs) ==
  [type |-> "MATCH_END", seedReveal |-> s, results |-> results,
   totalTurns |-> totalTurns, totalTimeMs |-> totalTimeMs]

TurnsOf(evs) == SelectSeq(evs, LAMBDA e : e.type = "TURN")

RECURSIVE SumTiming(_, _)
SumTiming(evs, i) ==
  IF i > Len(evs) THEN 0
  ELSE (IF evs[i].type = "TURN" THEN evs[i].timingMs ELSE 0) + SumTiming(evs, i + 1)

\* legalActions[0]
FirstLegal(legal) == IF Len(legal) = 0 THEN Undef ELSE legal[1]

\* what an agent may put in the action field of its answer: each legal action,
\* an action that is not legal, null, and nothing at all
AgentAnswers(legal) ==
  {legal[i] : i \in 1..Len(legal)} \cup {Num(999), Null, Undef}

\* a timeout that substitutes the fallback without marking the turn
DecideOutcomeUnmarked(result, legal) ==
  IF result = Null
  THEN [action |-> FirstLegal(legal), timedOut |-> FALSE]
  ELSE [action |-> result, timedOut |-> FALSE]

\* decideWithTimeout once the race has settled with `result`: null when the
\* timer won, the action of the agent's answer when decide won
DecideOutcome(result, legal) ==
  IF result = Null
  THEN [action |-> FirstLegal(legal), timedOut |-> TRUE]
  ELSE [action |-> result, timedOut |-> FALSE]

\* a validation that flags the answer but steps it all the same
ValidateWithoutFallback(rawAction, legal) ==
  IF ~isLegalAction(rawAction, legal)
  THEN [action |-> rawAction, illegalAction |-> TRUE, originalAction |-> rawAction]
  ELSE [action |-> rawAction, illegalAction |-> FALSE, originalAction |-> Undef]

\* "Validate action": the action that is stepped, and what is recorded
Validate(rawAction, legal) ==
  IF ~isLegalAction(rawAction, legal)
  THEN [action |-> FirstLegal(legal), illegalAction |-> TRUE,
        originalAction |-> rawAction]
  ELSE [action |-> rawAction, illegalAction |-> FALSE, originalAction |-> Undef]

NoPending == [playerId |-> Null]

\* Promise.race before either promise has settled
PendingRace == [settled |-> FALSE, value |-> Undef]

\* a race that the promise settling last decides
SettleRaceLastWins(race, v) == [settled |-> TRUE, value |-> v]

\* Promise.race([decidePromise, timeoutPromise]) when one of its promises
\* settles with v: the first to settle settles the race, the other is ignored
SettleRace(race, v) == IF race.settled THEN race ELSE [settled |-> TRUE, value |-> v]
NoStep == [called |-> FALSE]

\* no ladder is run, no rating kept, no generator made, nothing hashed
LibIdle ==
  ladder = << >> /\ ratings = << >> /\ rng = << >> /\ objects = << >> /\ queue = << >>

\* options.onEvent is not the runner's callback
NoRunner == [attached |-> FALSE]

\* insertEvent(matchId, eventType, eventData, sequence) once the database has
\* answered: the row is in match_events, or the answer is {error}, which is
\* logged and nothing more
insertEvent(table, eventType, sequence, error) ==
  IF error THEN table
  ELSE Append(table, [event_type |-> eventType, sequence |-> sequence])

\* getMaxSequence(matchId) once the database has answered: the highest
\* sequence of the match's rows, 0 when the answer has an error or no row
getMaxSequence(table, error) ==
  IF error \/ table = << >> THEN 0
  ELSE CHOOSE n \in {table[k].sequence : k \in 1..Len(table)} :
         \A k \in 1..Len(table) : table[k].sequence <= n

\* runMatchWithGame before coreRunMatch: logLines = [], sequence = 0; runMatch
\* of the runner has awaited its insert of MATCH_START with sequence 0, and
\* is at its await of runMatchWithGame ("match")
NewRunner(error) ==
  [attached |-> TRUE, sequence |-> 0, logLines |-> << >>, inserts |-> << >>,
   persisted |-> insertEvent(<< >>, "MATCH_START", 0, error),
   pc |-> "match", finalSequence |-> 0, errors |-> IF error THEN 1 ELSE 0]

\* the most answers with an error the database gives the runner in a match
MaxErrors == 1

\* the answers the database may give: with an error while there is room
Errors(r) == IF r.errors < MaxErrors THEN BOOLEAN ELSE {FALSE}

\* one more answer, with an error or not
Answered(r, error) == [r EXCEPT !.errors = IF error THEN @ + 1 ELSE @]

\* the onEvent of runMatchWithGame up to its await: the log line, then
\* params.onEvent(event, sequence), which starts insertEvent with sequence + 1;
\* sequence++ waits for the insert.  runMatch calls options.onEvent without
\* awaiting what it returns.
onEvent(r, event) ==
  IF ~r.attached THEN r
  ELSE [r EXCEPT
          !.logLines = Append(@, [seq |-> r.sequence, type |-> event.type]),
          !.inserts = Append(@, [event_type |-> event.type,
                                 sequence |-> r.sequence + 1,
                                 done |-> FALSE])]
NoVerdict == [kind |-> "none"]

InitMatch ==
  /\ input \in Inputs
  /\ wall = 0
  /\ pc = "init"
  /\ matchId = ""
  /\ state = [none |-> TRUE]
  /\ turnIndex = 0
  /\ events = << >>
  /\ onEventCalls = << >>
  /\ pending = NoPending
  /\ script = << >>
  /\ stepCalls = 0
  /\ lastStep = NoStep
  /\ run = 1
  /\ firstEvents = << >>
  /\ verdict = NoVerdict
  /\ inflight = << >>
  /\ LibIdle

Init == InitMatch /\ runner = NoRunner

\* runMatch up to the game loop: match id, MATCH_START, game.reset
StartMatch ==
  /\ pc = "init"
  /\ \E id \in {ResolveMatchId(input, wall, random) : random \in MathRandoms} :
     LET startEvent == MatchStartEvent(input, id, wall)
         r == Reset(input.game, input.seed, input.gameConfig, Len(Agents))
     IN /\ matchId' = id
        /\ events' = <<startEvent>>
        /\ onEventCalls' = <<startEvent>>
        /\ runner' = onEvent(runner, startEvent)
        /\ IF r.ok
           THEN state' = r.state /\ pc' = "loop"
           ELSE state' = state /\ pc' = "threw"
  /\ turnIndex' = 0
  /\ UNCHANGED <<input, wall, pending, script, stepCalls, lastStep, run,
                 firstEvents, verdict, inflight, libVars>>

LoopContinues ==
  /\ ~IsTerminal(input.game, state)
  /\ CurrentPlayer(input.game, state) # Null

\* one pass of the loop up to the await: observe, legalActions, decide(input)
BeginTurn ==
  /\ pc = "loop"
  /\ LoopContinues
  /\ LET p == CurrentPlayer(input.game, state).v
     IN pending' = [playerId |-> Num(p),
                    matchId |-> matchId,
                    observation |-> Observe(input.game, state, p),
                    legalActions |-> LegalActions(input.game, state, p),
                    turnIndex |-> turnIndex]
  /\ pc' = "awaiting"
  /\ UNCHANGED <<input, wall, matchId, state, turnIndex, events, onEventCalls,
                 script, stepCalls, lastStep, run, firstEvents, verdict, inflight, runner, libVars>>

\* agents that are deterministic under (matchId, turnIndex), such as the
\* random agent, whose generator is seeded with baseSeed:matchId:turnIndex:
\* in the repeated run an agent answers at a turn what it answered at that
\* turn of the first run when the match id is that of the first run; under
\* another match id it may answer anything
Scripted(b) ==
  IF run = 1 THEN TRUE
  ELSE IF matchId # firstEvents[1].matchId THEN TRUE
  ELSE turnIndex < Len(script) /\ b = script[turnIndex + 1]

\* the repeated run has so far made the turns of the first run
SameTurnsSoFar ==
  /\ Len(events) <= Len(firstEvents)
  /\ \A i \in 2..Len(events) :
       /\ firstEvents[i].type = "TURN"
       /\ events[i].action = firstEvents[i].action

\* the game is the same in both runs: game.step, handed in the repeated run
\* the state and the action of a step of the first run, does not throw, as
\* it did not then (a first run in which it threw is not repeated)
GameRepeats(action, stepThrows) ==
  (/\ run = 2
   /\ SameTurnsSoFar
   /\ Len(events) < Len(firstEvents)
   /\ firstEvents[Len(events) + 1].type = "TURN"
   /\ firstEvents[Len(events) + 1].action = action) => ~stepThrows

\* the rest of the pass once the race has settled: validation, game.step
\* (which throws when stepThrows), the TURN event, turnIndex++
CompleteTurn(b, result, timingMs, stepThrows) ==
  LET p == pending.playerId.v
      legal == pending.legalActions
      d == DecideOutcome(result, legal)
      val == Validate(d.action, legal)
      stepResult == IF stepThrows THEN Threw
                    ELSE Step(input.game, state, p, val.action)
      turnEvent == TurnEvent(turnIndex, p, pending.observation, val.action,
                             timingMs, d.timedOut, val.illegalAction,
                             val.originalAction, stepResult.events)
  IN /\ Scripted(b)
     /\ GameRepeats(val.action, stepThrows)
     /\ script' = IF run = 1 THEN Append(script, b) ELSE script
     /\ stepCalls' = stepCalls + 1
     /\ lastStep' = [called |-> TRUE, state |-> state, playerId |-> p,
                     action |-> val.action, turnIndex |-> turnIndex,
                     threw |-> ~stepResult.ok]
     /\ pending' = NoPending
     /\ IF stepResult.ok
        THEN /\ state' = stepResult.state
             /\ events' = Append(events, turnEvent)
             /\ onEventCalls' = Append(onEventCalls, turnEvent)
             /\ runner' = onEvent(runner, turnEvent)
             /\ turnIndex' = turnIndex + 1
             /\ pc' = "loop"
        ELSE /\ pc' = "threw"
             /\ UNCHANGED <<state, events, onEventCalls, turnIndex, runner>>
     /\ inflight' = IF b.kind = "timeout"
                    THEN Append(inflight, [turnIndex |-> turnIndex, call |-> "running",
                                           legalActions |-> legal,
                                           race |-> SettleRace(PendingRace, result)])
                    ELSE inflight
     /\ UNCHANGED <<input, wall, matchId, run, firstEvents, verdict, libVars>>

\* decide resolves before the timer with an answer whose action field is a
DecideReturns ==
  /\ pc = "awaiting"
  /\ \E a \in AgentAnswers(pending.legalActions), stepThrows \in BOOLEAN :
       CompleteTurn([kind |-> "return", action |-> a, stepThrows |-> stepThrows],
                    a, wall, stepThrows)

\* the timer of decideWithTimeout fires while decide is still pending
DecideTimesOut ==
  /\ pc = "awaiting"
  /\ \E stepThrows \in BOOLEAN :
       CompleteTurn([kind |-> "timeout", action |-> Undef, stepThrows |-> stepThrows],
                    Null, DEFAULT_TIMEOUT_MS + wall, stepThrows)

\* decide throws, rejects, or resolves to something that has no action field
\* to read: the race rejects and the rejection leaves runMatch
DecideRejects ==
  /\ pc = "awaiting"
  /\ Scripted([kind |-> "reject", action |-> Undef, stepThrows |-> FALSE])
  /\ script' = IF run = 1
               THEN Append(script, [kind |-> "reject", action |-> Undef,
                                    stepThrows |-> FALSE])
               ELSE script
  /\ pending' = NoPending
  /\ pc' = "rejected"
  /\ UNCHANGED <<input, wall, matchId, state, turnIndex, events, onEventCalls,
                 stepCalls, lastStep, run, firstEvents, verdict, inflight, runner, libVars>>

\* after the loop: getResults, MATCH_END, the report
FinishMatch ==
  /\ pc = "loop"
  /\ ~LoopContinues
  /\ LET r == GetResults(input.game, state)
     IN IF r.ok
        THEN LET endEvent == MatchEndEvent(input.seed, r.results, turnIndex,
                                           wall + SumTiming(events, 1))
             IN /\ events' = Append(events, endEvent)
                /\ onEventCalls' = Append(onEventCalls, endEvent)
                /\ runner' = onEvent(runner, endEvent)
                /\ pc' = "done"
        ELSE /\ pc' = "threw"
             /\ UNCHANGED <<events, onEventCalls, runner>>
  /\ UNCHANGED <<input, wall, matchId, state, turnIndex, pending, script,
                 stepCalls, lastStep, run, firstEvents, verdict, inflight, libVars>>

\* the MatchReport runMatch returns
Report ==
  [matchId |-> matchId, gameId |-> input.game,
   gameVersion |-> GameVersion(input.game),
   results |-> events[Len(events)].results, events |-> events,
   agents |-> agentMetas, seed |-> input.seed,
   seedCommit |-> commitSeed(input.seed), totalTurns |-> turnIndex,
   totalTimeMs |-> events[Len(events)].totalTimeMs]

RunNext ==
  \/ StartMatch
  \/ BeginTurn
  \/ DecideReturns
  \/ DecideTimesOut
  \/ DecideRejects
  \/ FinishMatch

\* a second runMatch call with the same game, agents, seed and options
Restart ==
  /\ pc = "done"
  /\ run = 1
  /\ verdict = NoVerdict
  /\ firstEvents' = events
  /\ run' = 2
  /\ wall' \in 0..MaxWall
  /\ pc' = "init"
  /\ matchId' = ""
  /\ state' = [none |-> TRUE]
  /\ turnIndex' = 0
  /\ events' = << >>
  /\ onEventCalls' = << >>
  /\ pending' = NoPending
  /\ stepCalls' = 0
  /\ lastStep' = NoStep
  /\ UNCHANGED <<input, script, verdict, inflight, runner, libVars>>

-----------------------------------------------------------------------------
(* replayMatch *)

NoEvent == [type |-> "none"]

\* events.find(e => e.type === t)
FindEvent(evs, t) ==
  IF \E i \in 1..Len(evs) : evs[i].type = t
  THEN evs[CHOOSE i \in 1..Len(evs) :
             /\ evs[i].type = t
             /\ \A j \in 1..(i - 1) : evs[j].type # t]
  ELSE NoEvent

ReplayError(type, ti) == [type |-> type, turnIndex |-> ti]

ErrorTypes(errors) == {errors[i].type : i \in 1..Len(errors)}

resultsEqual(a, b) ==
  /\ a.winner = b.winner
  /\ a.isDraw = b.isDraw
  /\ Len(a.players) = Len(b.players)
  /\ \A i \in 1..Len(a.players) :
       /\ a.players[i].playerId = b.players[i].playerId
       /\ a.players[i].score = b.players[i].score
       /\ a.players[i].rank = b.players[i].rank

RECURSIVE ReplayTurns(_, _, _, _, _, _, _)
\* the "Replay each turn" loop from turn event i on: the state, the errors
\* and turnsVerified when the loop ends, normally or by the break
ReplayTurns(g, st, turns, i, errors, turnsVerified, verifyObservations) ==
  IF i > Len(turns)
  THEN [state |-> st, errors |-> errors, turnsVerified |-> turnsVerified]
  ELSE
    LET turnEvent == turns[i]
        p == turnEvent.playerId
        ti == Num(turnEvent.turnIndex)
        e1 == IF verifyObservations
                 /\ hashObject(Observe(g, st, p)) # turnEvent.observationHash
              THEN Append(errors, ReplayError("OBSERVATION_HASH_MISMATCH", ti))
              ELSE errors
        legal == LegalActions(g, st, p)
        action == turnEvent.action
        e2 == IF ~isLegalAction(action, legal) /\ ~turnEvent.illegalAction
              THEN Append(e1, ReplayError("ACTION_ILLEGAL", ti))
              ELSE e1
        stepResult == Step(g, st, p, action)
    IN IF stepResult.ok
       THEN ReplayTurns(g, stepResult.state, turns, i + 1, e2, turnsVerified + 1,
                        verifyObservations)
       ELSE [state |-> st, errors |-> Append(e2, ReplayError("STATE_ERROR", ti)),
             turnsVerified |-> turnsVerified]

\* "Verify final results"
ReplayResults(g, st, endEvent, errors) ==
  IF IsTerminal(g, st)
  THEN LET r == GetResults(g, st)
       IN IF ~r.ok THEN Append(errors, ReplayError("STATE_ERROR", Undef))
          ELSE IF ~resultsEqual(r.results, endEvent.results)
          THEN Append(errors, ReplayError("RESULTS_MISMATCH", Undef))
          ELSE errors
  ELSE errors

replayMatch(g, evs, verifyObservations) ==
  LET startEvent == FindEvent(evs, "MATCH_START")
      endEvent == FindEvent(evs, "MATCH_END")
      turnEvents == TurnsOf(evs)
      failed(id, errors) ==
        [success |-> FALSE, matchId |-> id, errors |-> errors,
         turnsVerified |-> 0,
         totalTurns |-> IF startEvent = NoEvent THEN 0 ELSE Len(turnEvents)]
  IN IF startEvent = NoEvent
     THEN failed("unknown", <<ReplayError("MISSING_EVENT", Undef)>>)
     ELSE IF endEvent = NoEvent
     THEN failed(startEvent.matchId, <<ReplayError("MISSING_EVENT", Undef)>>)
     ELSE
       LET s == endEvent.seedReveal
           e0 == IF ~verifySeed(s, startEvent.seedCommit)
                 THEN <<ReplayError("SEED_MISMATCH", Undef)>>
                 ELSE << >>
           r == Reset(g, s, startEvent.config, Len(startEvent.agents))
       IN IF ~r.ok
          THEN failed(startEvent.matchId, Append(e0, ReplayError("STATE_ERROR", Undef)))
          ELSE
            LET t == ReplayTurns(g, r.state, turnEvents, 1, e0, 0, verifyObservations)
                errors == ReplayResults(g, t.state, endEvent, t.errors)
            IN [success |-> Len(errors) = 0,
                matchId |-> startEvent.matchId,
                errors |-> errors,
                turnsVerified |-> t.turnsVerified,
                totalTurns |-> Len(turnEvents)]

-----------------------------------------------------------------------------
(* Verification of a finished match's log, as written and after one value   *)
(* of it has been changed                                                   *)

\* replayMatch on the log runMatch returned
VerifyLog ==
  /\ pc = "done"
  /\ run = 1
  /\ verdict = NoVerdict
  /\ \E v \in BOOLEAN :
       verdict' = [kind |-> "original", verifyObservations |-> v,
                   result |-> replayMatch(input.game, events, v)]
  /\ UNCHANGED <<input, wall, pc, matchId, state, turnIndex, events, onEventCalls,
                 pending, script, stepCalls, lastStep, run, firstEvents, inflight, runner, libVars>>

\* values an altered TURN.action can take in a log of game g
AlteredActions(g) ==
  CASE g = "test_game" -> {Num(1), Num(2), Num(3), Num(999)}
    [] g = "rps" -> {Str("rock"), Str("paper"), Str("scissors"), Str("bogus")}
    [] g = "kuhn_poker" -> {Str("check"), Str("bet"), Str("call"), Str("fold")}

\* replayMatch(game, log), observation hashes verified as by default, on the
\* log with the action of one TURN event changed
AlterAction ==
  /\ pc = "done"
  /\ run = 1
  /\ verdict = NoVerdict
  /\ \E i \in 1..Len(events), a \in AlteredActions(input.game) :
       /\ events[i].type = "TURN"
       /\ a # events[i].action
       /\ verdict' = [kind |-> "action", verifyObservations |-> TRUE,
                      turnIndex |-> events[i].turnIndex, value |-> a,
                      result |-> replayMatch(input.game,
                                             [events EXCEPT ![i].action = a], TRUE)]
  /\ UNCHANGED <<input, wall, pc, matchId, state, turnIndex, events, onEventCalls,
                 pending, script, stepCalls, lastStep, run, firstEvents, inflight, runner, libVars>>

\* the first property of a stats object given another value
AlteredStats(stats) ==
  Obj([stats.v EXCEPT ![1] = <<stats.v[1][1], Str("altered")>>])

\* the ways one value inside MATCH_END.results can be changed: each is the
\* changed results
AlteredResults(res) ==
  {[res EXCEPT !.winner = w] : w \in {Num(0), Num(1), Null} \ {res.winner}}
  \cup {[res EXCEPT !.isDraw = Bool(~res.isDraw.v)]}
  \cup {[res EXCEPT !.players[i].playerId = Num(1 - @.v)] : i \in 1..Len(res.players)}
  \cup {[res EXCEPT !.players[i].score = Num(@.v + 1)] : i \in 1..Len(res.players)}
  \cup {[res EXCEPT !.players[i].rank = Num(3 - @.v)] : i \in 1..Len(res.players)}
  \cup {[res EXCEPT !.players[i].stats = AlteredStats(@)] :
          i \in {j \in 1..Len(res.players) : res.players[j].stats.k = "obj"}}

\* replayMatch on the log with one value of MATCH_END.results changed
AlterResults ==
  /\ pc = "done"
  /\ run = 1
  /\ verdict = NoVerdict
  /\ \E changed \in AlteredResults(events[Len(events)].results) :
       verdict' = [kind |-> "results", verifyObservations |-> TRUE,
                   results |-> changed,
                   result |-> replayMatch(input.game,
                                          [events EXCEPT ![Len(events)].results = changed],
                                          TRUE)]
  /\ UNCHANGED <<input, wall, pc, matchId, state, turnIndex, events, onEventCalls,
                 pending, script, stepCalls, lastStep, run, firstEvents, inflight, runner, libVars>>

\* the defects a log handed to replayMatch can carry
Defects == {"start", "end", "commit", "reveal", "hash", "action", "results"}

\* a seed other than s
OtherSeed(s) == IF s = "abc" THEN "test-seed" ELSE "abc"

\* an action no state of game g allows
IllegalActionOf(g) == IF g = "test_game" THEN Num(999) ELSE Str("bogus")

\* the log evs of game g with the defects D: MATCH_START dropped, MATCH_END
\* dropped, another seedCommit, another seedReveal, another observationHash
\* in the first TURN, an illegal action recorded as legal in the first TURN,
\* another score in the results
DamagedLog(g, evs, D) ==
  LET n == Len(evs)
      changed ==
        [i \in 1..n |->
           IF i = 1 /\ "commit" \in D
           THEN [evs[i] EXCEPT !.seedCommit = "wrong_commitment"]
           ELSE IF i = 2
           THEN [evs[i] EXCEPT
                   !.observationHash = IF "hash" \in D THEN "wrong_hash" ELSE @,
                   !.action = IF "action" \in D THEN IllegalActionOf(g) ELSE @,
                   !.illegalAction = IF "action" \in D THEN FALSE ELSE @]
           ELSE IF i = n
           THEN [evs[i] EXCEPT
                   !.seedReveal = IF "reveal" \in D THEN OtherSeed(@) ELSE @,
                   !.results.players[1].score =
                      IF "results" \in D THEN Num(@.v + 1) ELSE @]
           ELSE evs[i]]
  IN SelectSeq(changed, LAMBDA e :
                 /\ ~(e.type = "MATCH_START" /\ "start" \in D)
                 /\ ~(e.type = "MATCH_END" /\ "end" \in D))

\* replayMatch on the log of a finished match carrying up to MaxDefects
\* defects (none: the log as runMatch returned it)
DamageLog ==
  /\ pc = "done"
  /\ run = 1
  /\ verdict = NoVerdict
  /\ \E D \in SUBSET Defects :
       /\ Cardinality(D) <= MaxDefects
       /\ verdict' = [kind |-> "damaged", verifyObservations |-> TRUE,
                      defects |-> D,
                      result |-> replayMatch(input.game,
                                             DamagedLog(input.game, events, D), TRUE)]
  /\ UNCHANGED <<input, wall, pc, matchId, state, turnIndex, events, onEventCalls,
                 pending, script, stepCalls, lastStep, run, firstEvents, inflight, runner, libVars>>

Next == RunNext \/ VerifyLog \/ AlterAction \/ AlterResults

Spec == Init /\ [][Next]_vars

\* the log evs without its last k TURN events: MATCH_START, the first TURN
\* events and MATCH_END as they were written
TruncatedLog(evs, k) ==
  LET turns == {i \in 1..Len(evs) : evs[i].type = "TURN"}
      kept == {i \in 1..Len(evs) :
                 ~(i \in turns /\ Cardinality({j \in turns : j > i}) < k)}
      RECURSIVE Keep(_)
      Keep(i) == IF i > Len(evs) THEN << >>
                 ELSE (IF i \in kept THEN <<evs[i]>> ELSE << >>) \o Keep(i + 1)
  IN Keep(1)

\* replayMatch on the log of a finished match without its last TURN events
\* (none removed: the log as runMatch returned it)
TruncateLog ==
  /\ pc = "done"
  /\ run = 1
  /\ verdict = NoVerdict
  /\ \E k \in 0..Len(TurnsOf(events)), v \in BOOLEAN :
       verdict' = [kind |-> "truncated", verifyObservations |-> v, removed |-> k,
                   result |-> replayMatch(input.game, TruncatedLog(events, k), v)]
  /\ UNCHANGED <<input, wall, pc, matchId, state, turnIndex, events, onEventCalls,
                 pending, script, stepCalls, lastStep, run, firstEvents, inflight, runner, libVars>>

NextTrim == RunNext \/ TruncateLog

SpecTrim == Init /\ [][NextTrim]_vars

NextAudit == RunNext \/ DamageLog

SpecAudit == Init /\ [][NextAudit]_vars

\* a decide call that lost the race settles: it resolves with an answer or
\* rejects, and the race of its turn has been settled by the timer
LateSettles ==
  \E i \in 1..Len(inflight) :
    /\ inflight[i].call = "running"
    /\ \E late \in {[call |-> "resolved", value |-> Str("rock")],
                     [call |-> "resolved", value |-> Num(999)],
                     [call |-> "rejected", value |-> Str("Error")]} :
         inflight' = [inflight EXCEPT
                        ![i].call = late.call,
                        ![i].race = SettleRace(inflight[i].race, late.value)]
    /\ UNCHANGED <<input, wall, pc, matchId, state, turnIndex, events, onEventCalls,
                   pending, script, stepCalls, lastStep, run, firstEvents, verdict,
                   runner, libVars>>

NextLate == RunNext \/ LateSettles

SpecLate == Init /\ [][NextLate]_vars

\* the match of runMatchWithGame: options.onEvent is the runner's callback
\* runMatchWithGame takes its game from the registry of @cmax/games and
\* passes seed, gameConfig and onEvent to coreRunMatch, no matchId
RunnerInputs == {in \in Inputs : in.game \in {"rps", "kuhn_poker"} /\ in.matchId = Undef}

InitRunner ==
  /\ InitMatch
  /\ input \in RunnerInputs
  /\ \E error \in BOOLEAN : runner = NewRunner(error)

\* a pending insert of the runner is answered, with the row in the table or
\* with an error, and the awaits of insertEvent, params.onEvent and onEvent
\* resume in turn, the last with sequence++.  Callbacks run only while
\* runMatch is suspended at its await or has left.
InsertCompletes ==
  /\ runner.attached
  /\ pc \in {"awaiting", "done", "rejected", "threw"}
  /\ \E i \in 1..Len(runner.inserts), error \in Errors(runner) :
       /\ ~runner.inserts[i].done
       /\ runner' = [Answered(runner, error) EXCEPT
                       !.inserts[i].done = TRUE,
                       !.persisted = insertEvent(@, runner.inserts[i].event_type,
                                                 runner.inserts[i].sequence, error),
                       !.sequence = @ + 1]
  /\ UNCHANGED <<input, wall, pc, matchId, state, turnIndex, events, onEventCalls,
                 pending, script, stepCalls, lastStep, run, firstEvents, verdict,
                 inflight, libVars>>

\* runMatchWithGame has returned and the select of getMaxSequence, sent at
\* once, is answered from the rows the table holds now; runMatch of the
\* runner sends its insert of MATCH_END with finalSequence + 1
GetMaxSequenceReturns ==
  /\ runner.attached
  /\ pc = "done"
  /\ runner.pc = "match"
  /\ \E error \in Errors(runner) :
       runner' = [Answered(runner, error) EXCEPT
                    !.pc = "insert",
                    !.finalSequence = getMaxSequence(runner.persisted, error)]
  /\ UNCHANGED <<input, wall, pc, matchId, state, turnIndex, events, onEventCalls,
                 pending, script, stepCalls, lastStep, run, firstEvents, verdict,
                 inflight, libVars>>

\* the runner's insert of MATCH_END is answered; runMatch of the runner goes
\* on to the log upload and the update of the match
MatchEndInsertCompletes ==
  /\ runner.attached
  /\ runner.pc = "insert"
  /\ \E error \in Errors(runner) :
       runner' = [Answered(runner, error) EXCEPT
                    !.pc = "inserted",
                    !.persisted = insertEvent(@, "MATCH_END", runner.finalSequence + 1,
                                              error)]
  /\ UNCHANGED <<input, wall, pc, matchId, state, turnIndex, events, onEventCalls,
                 pending, script, stepCalls, lastStep, run, firstEvents, verdict,
                 inflight, libVars>>

NextRunner ==
  RunNext \/ InsertCompletes \/ GetMaxSequenceReturns \/ MatchEndInsertCompletes

SpecRunner == InitRunner /\ [][NextRunner]_vars

NextTwice == RunNext \/ Restart

SpecTwice == Init /\ [][NextTwice]_vars

-----------------------------------------------------------------------------
(* Texas Hold'em (packages/games/src/texas-holdem).  Seats are numbered    *)
(* from 0; players[s + 1] is seat s.  A card is rank and suit, "Ah"; no    *)
(* hole cards is << >>; no seat is -1.  Player fields nothing reads        *)
(* (agentId, isButton, isSmallBlind, isBigBlind) are left out.             *)

HoldemShuffle(seed, k) ==
  CASE seed = "test-seed" /\ k = 1 ->
      << "Ks", "2h", "6s", "Ad", "5d", "4d", "Qh", "Kd", "6c", "8c", "6h", "Jc", "Ac",
        "5h", "Qc", "3c", "Ts", "As", "Th", "Js", "2s", "4c", "5c", "6d", "9s", "4h",
        "4s", "Jd", "9d", "Kh", "9c", "7c", "2c", "3d", "3s", "Td", "Qd", "7s", "5s",
        "Kc", "2d", "8h", "3h", "7h", "Tc", "Qs", "8d", "Ah", "7d", "8s", "Jh", "9h" >>
    [] seed = "test-seed" /\ k = 2 ->
      << "4c", "6s", "Ah", "Js", "6c", "3c", "9d", "Ts", "Ad", "6h", "3h", "Ac", "9s",
        "Kd", "2c", "4d", "As", "5c", "Ks", "5s", "Qh", "7d", "Th", "7c", "8c", "7h",
        "9h", "4h", "3d", "Kh", "Jd", "Qd", "8s", "2d", "2h", "8d", "8h", "5d", "7s",
        "6d", "Qs", "Qc", "5h", "2s", "3s", "4s", "Td", "Kc", "Jh", "Jc", "9c", "Tc" >>
    [] seed = "test-seed" /\ k = 3 ->
      << "5s", "7h", "Qs", "4d", "9s", "8c", "4h", "3h", "6d", "Ks", "Kd", "2c", "Jc",
        "8h", "5d", "Kc", "Jh", "4s", "Td", "Jd", "8d", "Qd", "9h", "9c", "3c", "2d",
        "2s", "Kh", "Tc", "6s", "6h", "5c", "3d", "2h", "7d", "6c", "Qh", "4c", "Ah",
        "7s", "Qc", "3s", "8s", "7c", "Ts", "9d", "Ac", "Ad", "As", "Js", "Th", "5h" >>
    [] seed = "test-seed" /\ k = 4 ->
      << "Ad", "6h", "7c", "5s", "Qc", "Jh", "9d", "Ac", "Qh", "3d", "8c", "3h", "Th",
        "3s", "5d", "2c", "Ts", "6d", "7h", "6s", "7d", "6c", "2s", "8d", "8s", "4d",
        "4c", "7s", "8h", "4s", "Jc", "Tc", "9h", "5h", "Jd", "Kc", "Kd", "Td", "4h",
        "2h", "Ks", "Qs", "Ah", "2d", "5c", "Kh", "As", "9c", "Qd", "9s", "Js", "3c" >>
    [] seed = "test-seed" /\ k = 5 ->
      << "8h", "3d", "9h", "Tc", "5h", "9c", "9s", "Qc", "2c", "5d", "Ks", "5c", "8s",
        "7h", "Ad", "Kd", "4d", "Js", "Kh", "Ts", "3c", "Qh", "Jd", "5s", "Qs", "4c",
        "Kc", "Jc", "As", "Ac", "6s", "Th", "Ah", "2s", "2h", "6h", "Qd", "7c", "7s",
        "9d", "4h", "4s", "7d", "Jh", "2d", "8c", "3h", "3s", "6c", "6d", "Td", "8d" >>
    [] seed = "test-seed" /\ k = 6 ->
      << "6d", "2h", "Qd", "7c", "3d", "4s", "7h", "Kh", "8s", "7s", "2c", "7d", "5c",
        "Jd", "9s", "Qh", "3s", "8d", "Qs", "9c", "Qc", "Th", "4h", "5s", "4c", "Ac",
        "2d", "Jh", "6s", "8c", "6h", "Ah", "9d", "As", "Ts", "Kd", "3h", "8h", "6c",
        "4d", "Kc", "9h", "5h", "Td", "3c", "Ks", "2s", "Js", "5d", "Ad", "Jc", "Tc" >>
    [] seed = "test-seed" /\ k = 7 ->
      << "8c", "2d", "6c", "2h", "2c", "6h", "5c", "2s", "5s", "Ad", "Qc", "Ks", "Td",
        "5h", "Jh", "9c", "8h", "As", "3s", "Kh", "Ah", "7d", "Ts", "9h", "7c", "Tc",
        "4s", "Jc", "7h", "4h", "5d", "9s", "Qd", "3c", "4c", "Jd", "8s", "6s", "Qh",
        "6d", "Qs", "9d", "8d", "Th", "3h", "3d", "4d", "Kc", "Kd", "7s", "Js", "Ac" >>

\* seats that are neither folded, sitting out nor all-in
AbleToAct(p) == p.status \notin {"folded", "sitting_out", "all_in"}

getButtonPosition(players, previousButton) ==
  LET n == Len(players)
      seat(k) == (previousButton + 1 + k) % n
      k0 == CHOOSE k \in 0..(n - 1) :
              /\ players[seat(k) + 1].status # "sitting_out"
              /\ \A j \in 0..(k - 1) : players[seat(j) + 1].status = "sitting_out"
  IN seat(k0)

getBlindPositions(buttonPos, numPlayers) ==
  IF numPlayers = 2
  THEN [smallBlind |-> buttonPos, bigBlind |-> (buttonPos + 1) % 2]
  ELSE [smallBlind |-> (buttonPos + 1) % numPlayers,
        bigBlind |-> (buttonPos + 2) % numPlayers]

getPositionName(seatIndex, buttonPos, numPlayers) ==
  LET relativePos == (seatIndex - buttonPos + numPlayers) % numPlayers
      positions == << "BTN", "SB", "BB", "UTG", IF numPlayers = 5 THEN "CO" ELSE "MP", "CO" >>
  IN IF numPlayers = 2 THEN (IF relativePos = 0 THEN "BTN" ELSE "BB")
     ELSE IF numPlayers \in 3..6 THEN positions[relativePos + 1]
     ELSE "MP"

\* the walk from the seat after the big blind (preflop) or after the button
\* (postflop) that gives up, with -1, when it comes round to where it began
getFirstToAct(players, buttonPos, street) ==
  LET n == Len(players)
      from == IF street = "preflop"
              THEN getBlindPositions(buttonPos, n).bigBlind
              ELSE buttonPos
      seat(k) == (from + 1 + k) % n
      found == {k \in 0..(n - 2) : AbleToAct(players[seat(k) + 1])}
  IN IF Cardinality({i \in 1..n : players[i].status \notin {"folded", "sitting_out"}}) <= 1
     THEN -1
     ELSE IF found = {} THEN -1
     ELSE seat(CHOOSE k \in found : \A j \in found : k <= j)

\* the next seat to act after currentPlayer, or -1 when betting is complete
getNextToAct(players, currentPlayer, lastRaiser) ==
  LET n == Len(players)
      seat(k) == (currentPlayer + 1 + k) % n
      stops == {k \in 0..(n - 1) :
                  /\ AbleToAct(players[seat(k) + 1])
                  /\ \/ (lastRaiser # -1 /\ seat(k) = lastRaiser)
                     \/ ~players[seat(k) + 1].hasActed}
  IN IF stops = {} THEN -1
     ELSE LET k0 == CHOOSE k \in stops : \A j \in stops : k <= j
          IN IF lastRaiser # -1 /\ seat(k0) = lastRaiser THEN -1 ELSE seat(k0)

Min(a, b) == IF a < b THEN a ELSE b
Max(a, b) == IF a > b THEN a ELSE b

\* betting.ts getLegalActions: entries [type, minAmount, maxAmount], the
\* amounts 0 where the entry has none
HoldemGetLegalActions(player, betting) ==
  LET toCall == betting.currentBet - player.currentBet
      plain(t) == [type |-> t, minAmount |-> 0, maxAmount |-> 0]
      allIn == IF player.chips > 0 THEN << plain("all_in") >> ELSE << >>
  IN IF toCall = 0
     THEN << plain("check") >>
          \o (IF player.chips > 0
              THEN << [type |-> "bet",
                       minAmount |-> Min(betting.minRaise, player.chips),
                       maxAmount |-> player.chips] >>
              ELSE << >>)
          \o allIn
     ELSE << plain("fold") >>
          \o (IF player.chips > 0 THEN << plain("call") >> ELSE << >>)
          \o (IF player.chips > toCall
              THEN << [type |-> "raise",
                       minAmount |-> Min(betting.currentBet + betting.minRaise,
                                         player.chips + player.currentBet),
                       maxAmount |-> player.chips + player.currentBet] >>
              ELSE << >>)
          \o allIn

\* the other seats reopened by a raise: hasActed false, status waiting
ReopenOthers(players, seat) ==
  [i \in 1..Len(players) |->
     IF i # seat + 1 /\ players[i].status \notin {"folded", "all_in"}
     THEN [players[i] EXCEPT !.hasActed = FALSE, !.status = "waiting"]
     ELSE players[i]]

processAction(st, action) ==
  LET player == st.players[action.playerId + 1]
      me == action.playerId + 1
      betting == st.betting
      raised(amount, raiseAmount) ==
        [betting EXCEPT !.currentBet = amount,
                        !.minRaise = Max(betting.minRaise, raiseAmount),
                        !.lastRaiser = action.playerId,
                        !.numRaises = @ + 1]
  IN CASE action.type = "fold" ->
            [st EXCEPT !.players[me].status = "folded",
                          !.players[me].holeCards = << >>]
       [] action.type = "check" ->
            [st EXCEPT !.players[me].hasActed = TRUE,
                          !.players[me].status = "acted"]
       [] action.type = "call" ->
            LET toCall == betting.currentBet - player.currentBet
                actualCall == Min(toCall, player.chips)
            IN [st EXCEPT
                  !.players[me].chips = @ - actualCall,
                  !.players[me].currentBet = @ + actualCall,
                  !.players[me].totalInvested = @ + actualCall,
                  !.players[me].hasActed = TRUE,
                  !.players[me].status =
                     IF player.chips - actualCall = 0 THEN "all_in" ELSE "acted"]
       [] action.type \in {"bet", "raise"} ->
            LET amount == action.amount
                toAdd == amount - player.currentBet
                mine == [player EXCEPT
                           !.chips = @ - toAdd,
                           !.currentBet = amount,
                           !.totalInvested = @ + toAdd,
                           !.hasActed = TRUE,
                           !.status = IF player.chips - toAdd = 0
                                      THEN "all_in" ELSE "acted"]
            IN [st EXCEPT
                  !.players = ReopenOthers([st.players EXCEPT ![me] = mine],
                                           action.playerId),
                  !.betting = raised(amount, amount - betting.currentBet)]
       [] action.type = "all_in" ->
            LET allInAmount == player.chips + player.currentBet
                raiseAmount == allInAmount - betting.currentBet
                mine == [player EXCEPT
                           !.chips = 0,
                           !.currentBet = allInAmount,
                           !.totalInvested = player.totalInvested + player.chips,
                           !.status = "all_in",
                           !.hasActed = TRUE]
                players == [st.players EXCEPT ![me] = mine]
            IN IF allInAmount > betting.currentBet
               THEN IF raiseAmount >= betting.minRaise
                    THEN [st EXCEPT
                            !.players = ReopenOthers(players, action.playerId),
                            !.betting = raised(allInAmount, raiseAmount)]
                    ELSE [st EXCEPT
                            !.players = players,
                            !.betting.currentBet = Max(betting.currentBet, allInAmount)]
               ELSE [st EXCEPT !.players = players]

\* pots that leave the folded seats among the eligible players
calculatePotsKeepingFolded(players) ==
  LET n == Len(players)
      levelSet == {players[i].totalInvested : i \in {j \in 1..n : players[j].totalInvested > 0}}
      levels == [i \in 1..Cardinality(levelSet) |->
                   CHOOSE l \in levelSet : Cardinality({m \in levelSet : m < l}) = i - 1]
      seats == [i \in 1..n |-> i - 1]
  IN [i \in 1..Len(levels) |->
        [amount |-> (levels[i] - (IF i = 1 THEN 0 ELSE levels[i - 1]))
                    * Cardinality({j \in 1..n : players[j].totalInvested >= levels[i]}),
         eligiblePlayers |->
           SelectSeq(seats, LAMBDA seat : players[seat + 1].totalInvested >= levels[i]),
         isMain |-> i = 1]]

\* pots: [amount, eligiblePlayers (seat numbers in seat order), isMain]
calculatePots(players) ==
  LET n == Len(players)
      levelSet == {players[i].totalInvested : i \in {j \in 1..n : players[j].totalInvested > 0}}
      levels == [i \in 1..Cardinality(levelSet) |->
                   CHOOSE l \in levelSet : Cardinality({m \in levelSet : m < l}) = i - 1]
      seats == [i \in 1..n |-> i - 1]
      potAt(i) ==
        LET level == levels[i]
            previousLevel == IF i = 1 THEN 0 ELSE levels[i - 1]
        IN [amount |-> (level - previousLevel)
                       * Cardinality({j \in 1..n : players[j].totalInvested >= level}),
            eligiblePlayers |->
              SelectSeq(seats, LAMBDA s : /\ players[s + 1].totalInvested >= level
                                          /\ players[s + 1].status # "folded")]
      pushed == SelectSeq([i \in 1..Len(levels) |-> potAt(i)], LAMBDA pot : pot.amount > 0)
  IN [i \in 1..Len(pushed) |->
        [amount |-> pushed[i].amount,
         eligiblePlayers |-> pushed[i].eligiblePlayers,
         isMain |-> i = 1]]

RECURSIVE SeqSum(_)
SeqSum(s) == IF s = << >> THEN 0 ELSE Head(s) + SeqSum(Tail(s))

\* the last n cards of deck, in the order deck.pop() hands them out
Popped(deck, n) == [i \in 1..n |-> deck[Len(deck) + 1 - i]]

transitionStreet(st) ==
  LET pots == calculatePots(st.players)
      newPlayers == [i \in 1..Len(st.players) |->
                       [st.players[i] EXCEPT
                          !.currentBet = 0,
                          !.hasActed = FALSE,
                          !.status = IF @ \in {"folded", "sitting_out", "all_in"}
                                     THEN @ ELSE "waiting"]]
      street == st.betting.street
      cardsToDeal == IF street = "preflop" THEN 3 ELSE 1
      drawn == Popped(st.deck, 1 + cardsToDeal)
      firstToAct == getFirstToAct(newPlayers, st.buttonPosition, "postflop")
  IN IF street = "river"
     THEN [st EXCEPT !.players = newPlayers, !.pots = pots,
                     !.isHandComplete = TRUE, !.currentPlayer = -1]
     ELSE [st EXCEPT
             !.players = newPlayers,
             !.deck = SubSeq(st.deck, 1, Len(st.deck) - 1 - cardsToDeal),
             !.communityCards = @ \o Tail(drawn),
             !.burnCards = Append(@, drawn[1]),
             !.pots = pots,
             !.currentPlayer = firstToAct,
             !.betting = [street |-> CASE street = "preflop" -> "flop"
                                       [] street = "flop" -> "turn"
                                       [] street = "turn" -> "river",
                          currentBet |-> 0,
                          minRaise |-> st.config.bigBlind,
                          lastRaiser |-> -1,
                          numRaises |-> 0]]

getTotalPot(st) ==
  SeqSum([i \in 1..Len(st.pots) |-> st.pots[i].amount])
  + SeqSum([i \in 1..Len(st.players) |-> st.players[i].currentBet])

\* hands.ts findWinners: the seats of `eligible` (in seat order) whose hand
\* the hand solver ranks best; solver[s] is the rank it gives seat s's hand
findWinners(eligible, solver) ==
  SelectSeq(eligible, LAMBDA s : \A i \in 1..Len(eligible) : solver[eligible[i]] <= solver[s])

\* showdown.ts resolveShowdown: winnerAmounts, the chips each seat is awarded
resolveShowdown(players, pots, solver) ==
  LET seats == [i \in 1..Len(players) |-> i - 1]
      showdownPlayers ==
        SelectSeq(seats, LAMBDA s : /\ players[s + 1].status # "folded"
                                    /\ players[s + 1].holeCards # << >>)
      share(i, s) ==
        LET eligible == SelectSeq(showdownPlayers,
                                  LAMBDA e : InSeq(e, pots[i].eligiblePlayers))
            winnerIds == IF Len(eligible) <= 1 THEN eligible
                         ELSE findWinners(eligible, solver)
        IN IF ~InSeq(s, winnerIds) THEN 0
           ELSE (pots[i].amount \div Len(winnerIds))
                + (IF winnerIds[1] = s THEN pots[i].amount % Len(winnerIds) ELSE 0)
  IN [s \in 0..(Len(players) - 1) |-> SeqSum([i \in 1..Len(pots) |-> share(i, s)])]

\* a fold-out that pays the main pot only
resolveWithoutShowdownMainOnly(pots) == IF pots = << >> THEN 0 ELSE pots[1].amount

\* showdown.ts resolveWithoutShowdown: amountWon of the only winner
resolveWithoutShowdown(pots) == SeqSum([i \in 1..Len(pots) |-> pots[i].amount])

\* startHand(state, rng), deck being shuffleDeck(createDeck(), rng)
startHand(st, deck) ==
  LET n == Len(st.players)
      buttonPosition == getButtonPosition(st.players, st.buttonPosition)
      blinds == getBlindPositions(buttonPosition, st.numPlayers)
      sb == blinds.smallBlind + 1
      bb == blinds.bigBlind + 1
      sitting(i) == ~(st.players[i].chips > 0)
      \* hole cards go to the seats not sitting out, two pops each, in seat order
      dealtBefore(i) == Cardinality({j \in 1..(i - 1) : ~sitting(j)})
      fresh == [i \in 1..n |->
                  [st.players[i] EXCEPT
                     !.holeCards = IF sitting(i) THEN << >>
                                   ELSE << deck[Len(deck) - 2 * dealtBefore(i)],
                                           deck[Len(deck) - 2 * dealtBefore(i) - 1] >>,
                     !.currentBet = 0,
                     !.totalInvested = 0,
                     !.status = IF sitting(i) THEN "sitting_out" ELSE "waiting",
                     !.hasActed = FALSE]]
      sbAmount == Min(st.config.smallBlind, fresh[sb].chips)
      afterSb == [fresh EXCEPT ![sb].chips = @ - sbAmount,
                               ![sb].currentBet = sbAmount,
                               ![sb].totalInvested = sbAmount]
      bbAmount == Min(st.config.bigBlind, afterSb[bb].chips)
      afterBb == [afterSb EXCEPT ![bb].chips = @ - bbAmount,
                                 ![bb].currentBet = bbAmount,
                                 ![bb].totalInvested = bbAmount]
      players == [i \in 1..n |->
                    IF i \in {sb, bb} /\ afterBb[i].chips = 0
                    THEN [afterBb[i] EXCEPT !.status = "all_in"]
                    ELSE afterBb[i]]
  IN [st EXCEPT
        !.players = players,
        !.deck = SubSeq(deck, 1, Len(deck) - 2 * Cardinality({i \in 1..n : ~sitting(i)})),
        !.communityCards = << >>,
        !.burnCards = << >>,
        !.buttonPosition = buttonPosition,
        !.betting = [street |-> "preflop", currentBet |-> bbAmount,
                     minRaise |-> st.config.bigBlind, lastRaiser |-> blinds.bigBlind,
                     numRaises |-> 0],
        !.pots = << >>,
        !.currentPlayer = getFirstToAct(players, buttonPosition, "preflop"),
        !.handNumber = @ + 1,
        !.isHandComplete = FALSE]

RECURSIVE dealRemainingCards(_)
dealRemainingCards(st) ==
  IF Len(st.communityCards) >= 5 THEN st
  ELSE LET cardsToDeal == IF Len(st.communityCards) = 0 THEN 3 ELSE 1
           drawn == Popped(st.deck, 1 + cardsToDeal)
       IN dealRemainingCards(
            [st EXCEPT !.deck = SubSeq(@, 1, Len(@) - 1 - cardsToDeal),
                       !.communityCards = @ \o Tail(drawn),
                       !.burnCards = Append(@, drawn[1])])

isMatchOver(st) ==
  Cardinality({i \in 1..Len(st.players) : st.players[i].chips > 0}) <= 1

\* { ...DEFAULT_CONFIG, ...config }
HoldemMergedConfig(config) ==
  LET or(key, default) == IF config.k = "obj" /\ Get(config, key) # Undef
                          THEN Get(config, key).v ELSE default
  IN [numPlayers |-> or("numPlayers", 2),
      startingChips |-> or("startingChips", 10000),
      smallBlind |-> or("smallBlind", 50),
      bigBlind |-> or("bigBlind", 100)]

\* texasHoldem.reset({seed, config}); the numPlayers it is passed is not read
HoldemReset(seed, config, numPlayers) ==
  LET cfg == HoldemMergedConfig(config)
  IN startHand(
       [players |-> [i \in 1..cfg.numPlayers |->
                       [id |-> i - 1, chips |-> cfg.startingChips, holeCards |-> << >>,
                        currentBet |-> 0, totalInvested |-> 0, status |-> "waiting",
                        hasActed |-> FALSE]],
        numPlayers |-> cfg.numPlayers,
        deck |-> HoldemShuffle(seed, 1),
        communityCards |-> << >>,
        burnCards |-> << >>,
        buttonPosition |-> cfg.numPlayers - 1,
        betting |-> [street |-> "preflop", currentBet |-> 0, minRaise |-> cfg.bigBlind,
                     lastRaiser |-> -1, numRaises |-> 0],
        pots |-> << >>,
        currentPlayer |-> -1,
        handNumber |-> 0,
        isHandComplete |-> FALSE,
        config |-> cfg],
       HoldemShuffle(seed, 2))

\* an observation that shows every seat's hole cards
HoldemObserveOpenCards(st, playerId) ==
  [playerId |-> playerId,
   holeCards |-> [i \in 1..Len(st.players) |-> st.players[i].holeCards],
   chips |-> st.players[playerId + 1].chips,
   communityCards |-> st.communityCards,
   street |-> st.betting.street,
   pot |-> getTotalPot(st),
   legalActions |-> HoldemGetLegalActions(st.players[playerId + 1], st.betting)]

HoldemObserve(st, playerId) ==
  LET player == st.players[playerId + 1]
      others == SelectSeq(st.players, LAMBDA p : p.id # playerId)
  IN [playerId |-> playerId,
      holeCards |-> player.holeCards,
      chips |-> player.chips,
      currentBet |-> player.currentBet,
      position |-> getPositionName(playerId, st.buttonPosition, st.numPlayers),
      communityCards |-> st.communityCards,
      street |-> st.betting.street,
      pot |-> getTotalPot(st),
      currentBetToCall |-> st.betting.currentBet,
      minRaise |-> st.betting.minRaise,
      opponents |-> [i \in 1..Len(others) |->
                       [playerId |-> others[i].id,
                        chips |-> others[i].chips,
                        currentBet |-> others[i].currentBet,
                        status |-> others[i].status,
                        position |-> getPositionName(others[i].id, st.buttonPosition,
                                                     st.numPlayers)]],
      actions |-> << >>,
      legalActions |-> HoldemGetLegalActions(player, st.betting)]

\* texasHoldem.legalActions: [type, amount], amount -1 where there is none
HoldemLegalActions(st, playerId) ==
  LET legal == HoldemGetLegalActions(st.players[playerId + 1], st.betting)
  IN [i \in 1..Len(legal) |->
        [type |-> legal[i].type,
         amount |-> IF legal[i].type \in {"bet", "raise"} THEN legal[i].minAmount ELSE -1]]

\* a Hold'em action as the object the orchestrator compares: {type, amount}
\* for an action with an amount, {type} for one without
TexasHoldemAction(a) ==
  IF a.amount = -1 THEN Obj(<< <<"type", Str(a.type)>> >>)
  ELSE Obj(<< <<"type", Str(a.type)>>, <<"amount", Num(a.amount)>> >>)

HoldemCurrentPlayer(st) == st.currentPlayer

HoldemIsTerminal(st) ==
  Cardinality({i \in 1..Len(st.players) : st.players[i].chips > 0}) <= 1

\* texasHoldem.step({state, playerId, action, rng}): deck is the shuffle
\* startHand would draw from rng, solver the ranks the hand solver gives the
\* seats' hands.  Beside the returned state the record tells how the step
\* ended (kind), the action applied, and for a hand that ended the state with
\* the chips awarded, before the next hand is started (settled).
HoldemStep(st, playerId, action, deck, solver) ==
  LET legalActions == HoldemGetLegalActions(st.players[playerId + 1], st.betting)
      isLegal == \E i \in 1..Len(legalActions) :
                   LET la == legalActions[i]
                   IN /\ la.type = action.type
                      /\ (la.type \in {"bet", "raise"} /\ action.amount # -1)
                           => /\ action.amount >= la.minAmount
                              /\ action.amount <= la.maxAmount
      fallbackAction == legalActions[1]
      finalAction == IF isLegal THEN action
                     ELSE [type |-> fallbackAction.type,
                           amount |-> IF fallbackAction.type \in {"bet", "raise"}
                                      THEN fallbackAction.minAmount ELSE -1]
      processed == processAction(st, [playerId |-> playerId, type |-> finalAction.type,
                                      amount |-> finalAction.amount])
      n == Len(st.players)
      activePlayers == SelectSeq(processed.players,
                                 LAMBDA p : p.status \notin {"folded", "sitting_out"})
      pots == calculatePots(processed.players)
      ended(settled, kind) ==
        [state |-> IF isMatchOver(settled) THEN settled ELSE startHand(settled, deck),
         action |-> finalAction, kind |-> kind, settled |-> settled]
      nextPlayer == getNextToAct(processed.players, playerId, processed.betting.lastRaiser)
  IN IF Len(activePlayers) = 1
     THEN LET winner == activePlayers[1]
              amountWon == resolveWithoutShowdown(pots)
          IN ended([processed EXCEPT !.players[winner.id + 1].chips = @ + amountWon,
                                     !.pots = pots,
                                     !.isHandComplete = TRUE],
                   "fold_out")
     ELSE IF nextPlayer = -1
     THEN IF \/ Cardinality({i \in 1..n : AbleToAct(processed.players[i])}) <= 1
             \/ processed.betting.street = "river"
          THEN LET dealt == dealRemainingCards(processed)
                   winnerAmounts == resolveShowdown(dealt.players, pots, solver)
               IN ended([dealt EXCEPT
                           !.players = [i \in 1..n |->
                                          [dealt.players[i] EXCEPT
                                             !.chips = @ + winnerAmounts[i - 1]]],
                           !.pots = pots,
                           !.isHandComplete = TRUE],
                        "showdown")
          ELSE [state |-> transitionStreet(processed), action |-> finalAction,
                kind |-> "street", settled |-> processed]
     ELSE [state |-> [processed EXCEPT !.currentPlayer = nextPlayer],
           action |-> finalAction, kind |-> "next", settled |-> processed]

\* playing Hold'em: texasHoldem driven as runMatch drives a game, reset and
\* then step for currentPlayer while the state is not terminal

\* texasHoldem.numPlayers: { min: 2, max: 6 }
HoldemNumPlayers == 2..6

\* runMatch options for Hold'em; numAgents is agents.length.  Without a
\* gameConfig the match has two agents and more, or one more than Hold'em
\* supports; the two-seat example has two agents, and the small tables of
\* two seats and more have as many agents as seats
HoldemInputs ==
  LET example == Obj(<< <<"startingChips", Num(1000)>>, <<"smallBlind", Num(10)>>,
                        <<"bigBlind", Num(20)>> >>)
      small(n) == Obj(<< <<"numPlayers", Num(n)>>, <<"startingChips", Num(SmallStack)>>,
                         <<"smallBlind", Num(1)>>, <<"bigBlind", Num(2)>> >>)
  IN {[game |-> "texas_holdem", seed |-> "test-seed", gameConfig |-> Undef,
       numAgents |-> a] : a \in 2..MaxSeats \cup {7}}
     \cup {[game |-> "texas_holdem", seed |-> "test-seed", gameConfig |-> example,
            numAgents |-> 2]}
     \cup {[game |-> "texas_holdem", seed |-> "test-seed", gameConfig |-> small(n),
            numAgents |-> n] : n \in 2..MaxSeats}

InitHoldem ==
  /\ input \in HoldemInputs
  /\ wall = 0
  /\ pc = "holdem_init"
  /\ matchId = ""
  /\ state = [none |-> TRUE]
  /\ turnIndex = 0
  /\ events = << >>
  /\ onEventCalls = << >>
  /\ pending = NoPending
  /\ script = << >>
  /\ stepCalls = 0
  /\ lastStep = NoStep
  /\ run = 1
  /\ firstEvents = << >>
  /\ verdict = NoVerdict
  /\ inflight = << >>
  /\ LibIdle
  /\ runner = NoRunner

\* game.reset({seed, config, numPlayers: agents.length})
HoldemStart ==
  /\ pc = "holdem_init"
  /\ state' = HoldemReset(input.seed, input.gameConfig, input.numAgents)
  /\ pc' = "holdem"
  /\ UNCHANGED <<input, wall, matchId, turnIndex, events, onEventCalls, pending, script,
                 stepCalls, lastStep, run, firstEvents, verdict, inflight, runner, libVars>>

\* the ranks the hand solver may give the seats' hands, as far as they
\* matter to a step: all of them when the step ends in a showdown
SolversFor(st, action) ==
  LET n == Len(st.players)
      even == [s \in 0..(n - 1) |-> 1]
  IN IF HoldemStep(st, st.currentPlayer, action, st.deck, even).kind = "showdown"
     THEN [0..(n - 1) -> 1..n] ELSE {even}

\* the actions step can be handed that legalActions does not list: another
\* amount for an offered bet or raise, or an action that is not offered
OtherActions(st, playerId) ==
  LET legal == HoldemGetLegalActions(st.players[playerId + 1], st.betting)
      sized == {i \in 1..Len(legal) : legal[i].type \in {"bet", "raise"}}
  IN ({[type |-> t, amount |-> -1] : t \in {"fold", "check", "call", "all_in"}}
      \cup {[type |-> t, amount |-> st.config.bigBlind] : t \in {"bet", "raise"}}
      \cup UNION {{[type |-> legal[i].type, amount |-> a] :
                      a \in {legal[i].minAmount - 1, legal[i].minAmount + 1,
                             legal[i].maxAmount, legal[i].maxAmount + 1}} : i \in sized})
     \ {HoldemLegalActions(st, playerId)[i] : i \in 1..Len(legal)}

\* one pass of the game loop with the step it makes
HoldemPlay(action, solver, listed) ==
  \E playerId \in {HoldemCurrentPlayer(state)} :
  \E r \in {HoldemStep(state, playerId, action,
                        HoldemShuffle(input.seed, state.handNumber), solver)} :
     /\ state' = r.state
     /\ lastStep' = [called |-> TRUE, playerId |-> playerId,
                     action |-> r.action, kind |-> r.kind, listed |-> listed,
                     before |-> state, settled |-> r.settled]
     /\ turnIndex' = turnIndex + 1
     /\ UNCHANGED <<input, wall, pc, matchId, events, onEventCalls, pending, script,
                    stepCalls, run, firstEvents, verdict, inflight, runner, libVars>>

HoldemCanPlay ==
  /\ pc = "holdem"
  /\ ~HoldemIsTerminal(state)
  /\ HoldemCurrentPlayer(state) # -1
  /\ state.handNumber <= MaxHands
  /\ turnIndex < (IF state.config.startingChips > SmallStack
                  THEN MaxDeepTurns ELSE MaxTurns)

\* the agent answers with one of legalActions
HoldemTurn ==
  /\ HoldemCanPlay
  /\ \E i \in 1..Len(HoldemLegalActions(state, HoldemCurrentPlayer(state))) :
       LET action == HoldemLegalActions(state, HoldemCurrentPlayer(state))[i]
       IN \E solver \in SolversFor(state, action) : HoldemPlay(action, solver, TRUE)

\* step is handed an action legalActions does not list
HoldemOtherTurn ==
  /\ HoldemCanPlay
  /\ \E action \in OtherActions(state, HoldemCurrentPlayer(state)) :
       \E solver \in SolversFor(state, action) : HoldemPlay(action, solver, FALSE)

NextHoldem == HoldemStart \/ HoldemTurn \/ HoldemOtherTurn

SpecHoldem == InitHoldem /\ [][NextHoldem]_vars

-----------------------------------------------------------------------------
(* Elo ratings (packages/core/src/ratings.ts).  Player ids are JSON strings, *)
(* no winner is Null.  Scores are in millionths: 1 is 1000000.               *)

MatchIdle ==
  /\ input = Undef
  /\ wall = 0
  /\ pc = "idle"
  /\ matchId = ""
  /\ state = [none |-> TRUE]
  /\ turnIndex = 0
  /\ events = << >>
  /\ onEventCalls = << >>
  /\ pending = NoPending
  /\ script = << >>
  /\ stepCalls = 0
  /\ lastStep = NoStep
  /\ run = 1
  /\ firstEvents = << >>
  /\ verdict = NoVerdict
  /\ inflight = << >>
  /\ runner = NoRunner

DEFAULT_K_FACTOR == 32
DEFAULT_INITIAL_RATING == 1500

\* 1 / (1 + Math.pow(10, -d / 400)) in millionths for d = 0, 1, ..., by
\* position d + 1
EXPECTED_SCORE ==
  <<
     500000, 501439, 502878, 504317, 505756, 507195, 508634, 510072, 511511, 512949,
     514387, 515825, 517263, 518700, 520137, 521573, 523010, 524445, 525881, 527316,
     528751, 530185, 531618, 533051, 534484, 535916, 537347, 538778, 540208, 541638,
     543066, 544495, 545922, 547349, 548774, 550199, 551624, 553047, 554469, 555891,
     557312, 558731, 560150, 561568, 562985, 564400, 565815, 567229, 568641, 570053,
     571463, 572872, 574280, 575687, 577092, 578497, 579900, 581301, 582702, 584101,
     585499, 586895, 588290, 589684, 591076, 592466, 593855, 595243, 596629, 598014,
     599397, 600778, 602158, 603536, 604913, 606288, 607661, 609033, 610402, 611771,
     613137, 614501, 615864, 617225, 618584, 619941, 621297, 622650, 624002, 625351,
     626699, 628045, 629389, 630730, 632070, 633408, 634743, 636077, 637408, 638738,
     640065, 641390, 642713, 644034, 645352, 646669, 647983, 649295, 650605, 651912,
     653217, 654520, 655821, 657119, 658415, 659708, 660999, 662288, 663574, 664858,
     666139, 667418, 668695, 669969, 671241, 672510, 673776, 675040, 676302, 677561,
     678817, 680071, 681322, 682570, 683816, 685060, 686300, 687538, 688774, 690006,
     691236, 692463, 693688, 694910, 696129, 697345, 698559, 699769, 700977, 702183,
     703385, 704585, 705781, 706975, 708166, 709355, 710540, 711723, 712902, 714079,
     715253, 716424, 717592, 718757, 719919, 721078, 722235, 723388, 724538, 725686,
     726830, 727972, 729110, 730245, 731378, 732507, 733634, 734757, 735877, 736995,
     738109, 739220, 740328, 741434, 742536, 743635, 744730, 745823, 746913, 748000,
     749083, 750163, 751241, 752315, 753386, 754454, 755519, 756581, 757639, 758695,
     759747, 760796, 761842, 762885, 763925, 764961, 765995, 767025, 768052, 769076,
     770097, 771114, 772129, 773140, 774148, 775153, 776155, 777153, 778148, 779141,
     780130, 781115, 782098, 783077, 784054, 785027, 785997, 786963, 787927, 788887,
     789844, 790798, 791749, 792696, 793641, 794582, 795520, 796455, 797386, 798315,
     799240, 800162, 801081, 801997, 802909, 803819, 804725, 805628, 806528, 807424,
     808318, 809208, 810095, 810979, 811860, 812738, 813612, 814484, 815352, 816217,
     817079, 817938, 818793, 819646, 820495, 821341, 822185, 823025, 823862, 824695,
     825526, 826354, 827178, 827999, 828818, 829633, 830445, 831254, 832060, 832863,
     833662, 834459, 835253, 836043, 836831, 837615, 838397, 839175, 839951, 840723,
     841492, 842259, 843022, 843782, 844540, 845294, 846045, 846793, 847539, 848281,
     849020, 849757, 850490, 851221, 851948, 852673, 853395, 854113, 854829, 855542,
     856252, 856959, 857663, 858365, 859063, 859759, 860451, 861141, 861828, 862512,
     863193, 863871, 864547, 865220, 865890, 866557, 867221, 867882, 868541, 869197,
     869850, 870500, 871148, 871793, 872435, 873074, 873710, 874344, 874975, 875604,
     876229, 876852, 877473, 878090, 878705, 879317, 879927, 880534, 881138, 881739,
     882338, 882935, 883528, 884119, 884708, 885294, 885877, 886458, 887036, 887611,
     888184, 888755, 889323, 889888, 890451, 891011, 891569, 892124, 892677, 893227,
     893775, 894320, 894863, 895403, 895941, 896477, 897010, 897540, 898068, 898594,
     899117, 899638, 900157, 900673, 901187, 901698, 902207, 902714, 903218, 903720,
     904220, 904718, 905213, 905705, 906196, 906684, 907170, 907654, 908135, 908614,
     909091, 909566, 910038, 910508, 910976, 911442, 911905, 912367, 912826, 913283,
     913738, 914190, 914641, 915089, 915535, 915979, 916421, 916861, 917299, 917735,
     918168, 918600, 919029, 919456, 919882, 920305, 920726, 921145, 921562, 921977,
     922391, 922802, 923211, 923618, 924023, 924426, 924827, 925226, 925624, 926019,
     926412, 926804, 927193, 927581, 927967, 928351, 928733, 929113, 929491, 929867,
     930242, 930614, 930985, 931354, 931721, 932086, 932450, 932812, 933172, 933530,
     933886, 934240, 934593, 934944, 935293, 935641, 935987, 936331, 936673, 937014,
     937353, 937690, 938025, 938359, 938691, 939022, 939350, 939678, 940003, 940327,
     940649, 940970, 941289, 941606, 941922, 942236, 942548, 942859, 943168, 943476,
     943782, 944087, 944390, 944692, 944992, 945290, 945587, 945883, 946176, 946469,
     946760, 947049, 947337, 947624, 947909, 948192, 948474, 948755, 949034, 949312,
     949588, 949863, 950136, 950408, 950679, 950948, 951216, 951482, 951747, 952011,
     952273, 952534, 952794, 953052, 953309, 953565, 953819, 954072, 954323, 954573,
     954822, 955070, 955316, 955562, 955805, 956048, 956289, 956529, 956768, 957005,
     957242, 957477, 957710, 957943, 958174, 958404, 958633, 958861, 959087, 959313,
     959537, 959760, 959981, 960202, 960421, 960640, 960857, 961073, 961287, 961501,
     961713, 961925, 962135, 962344, 962552, 962759, 962965, 963170, 963374, 963576,
     963778, 963978, 964177, 964376, 964573, 964769, 964964, 965158, 965351, 965543,
     965734, 965924, 966113, 966301, 966488, 966674, 966859, 967043, 967226, 967408,
     967589, 967769, 967948, 968126, 968303, 968480, 968655, 968829, 969003, 969175,
     969347, 969517, 969687, 969856, 970023, 970190, 970356, 970522, 970686, 970849,
     971012, 971173, 971334, 971494, 971653, 971811, 971968, 972125, 972280, 972435,
     972589, 972742, 972894, 973045, 973196, 973346, 973495, 973643, 973790, 973937,
     974082, 974227, 974371, 974515, 974657, 974799, 974940, 975080, 975220, 975359,
     975497, 975634, 975770, 975906, 976041, 976175, 976309, 976442, 976574, 976705,
     976836, 976965, 977095, 977223, 977351, 977478, 977604, 977730, 977855, 977979,
     978103, 978226, 978348, 978470, 978591, 978711, 978831, 978950, 979068, 979186,
     979303, 979419, 979535, 979650, 979764, 979878, 979991, 980104, 980216, 980327,
     980438, 980548, 980657, 980766, 980874, 980982, 981089, 981196, 981302, 981407,
     981512, 981616, 981720, 981823, 981925, 982027, 982128, 982229, 982329, 982429,
     982528 >>

\* expectedScore(ratingA, ratingB), in millionths
expectedScore(ratingA, ratingB) ==
  IF ratingA >= ratingB THEN EXPECTED_SCORE[ratingA - ratingB + 1]
  ELSE 1000000 - EXPECTED_SCORE[ratingB - ratingA + 1]

\* Math.round(x / 1000000): the nearest integer, a half goes up
MathRound(millionths) == (millionths + 500000) \div 1000000

\* calculateNewRating(rating, expected, actual, kFactor) for an integer rating
calculateNewRating(rating, expected, actual, kFactor) ==
  rating + MathRound(kFactor * (actual - expected))

\* createEloRatings(config): the Map is the sequence of its values in
\* insertion order
createEloRatings(config) ==
  LET given(key) == config.k = "obj" /\ Get(config, key) \notin {Undef, Null}
  IN [kFactor |-> IF given("kFactor") THEN Get(config, "kFactor").v
                  ELSE DEFAULT_K_FACTOR,
      initialRating |-> IF given("initialRating") THEN Get(config, "initialRating").v
                        ELSE DEFAULT_INITIAL_RATING,
      players |-> << >>]

HasPlayer(r, playerId) == \E i \in 1..Len(r.players) : r.players[i].playerId = playerId

PlayerAt(r, playerId) ==
  CHOOSE i \in 1..Len(r.players) : r.players[i].playerId = playerId

getOrCreate(r, playerId) ==
  IF HasPlayer(r, playerId) THEN r
  ELSE [r EXCEPT !.players =
          Append(@, [playerId |-> playerId, rating |-> r.initialRating,
                     matches |-> 0, wins |-> 0, losses |-> 0, draws |-> 0])]

getRating(r, playerId) ==
  LET c == getOrCreate(r, playerId) IN c.players[PlayerAt(c, playerId)].rating

\* sort((a, b) => b.rating - a.rating) on the Map's values: descending by
\* rating, players of equal rating in insertion order (the sort is stable)
getLeaderboard(r) ==
  LET Before(i, j) ==
        \/ r.players[i].rating > r.players[j].rating
        \/ r.players[i].rating = r.players[j].rating /\ i < j
      Place(i) == 1 + Cardinality({j \in 1..Len(r.players) : Before(j, i)})
  IN [k \in 1..Len(r.players) |->
        r.players[CHOOSE i \in 1..Len(r.players) : Place(i) = k]]

\* a recordMatch that does not count a draw as a match
recordMatchDrawsUncounted(r, player1Id, player2Id, winnerId) ==
  LET c == getOrCreate(getOrCreate(r, player1Id), player2Id)
      i1 == PlayerAt(c, player1Id)
      i2 == PlayerAt(c, player2Id)
      oldRating1 == c.players[i1].rating
      oldRating2 == c.players[i2].rating
      expected1 == expectedScore(oldRating1, oldRating2)
      expected2 == expectedScore(oldRating2, oldRating1)
      actual1 == IF winnerId = Null THEN 500000
                 ELSE IF winnerId = player1Id THEN 1000000 ELSE 0
      actual2 == 1000000 - actual1
      counted ==
        IF winnerId = Null
        THEN [[c.players EXCEPT ![i1].draws = @ + 1] EXCEPT ![i2].draws = @ + 1]
        ELSE IF winnerId = player1Id
        THEN [[c.players EXCEPT ![i1].wins = @ + 1] EXCEPT ![i2].losses = @ + 1]
        ELSE [[c.players EXCEPT ![i1].losses = @ + 1] EXCEPT ![i2].wins = @ + 1]
      rated1 == [counted EXCEPT ![i1].rating =
                   calculateNewRating(@, expected1, actual1, c.kFactor)]
      rated2 == [rated1 EXCEPT ![i2].rating =
                   calculateNewRating(@, expected2, actual2, c.kFactor)]
      played == IF winnerId = Null THEN rated2
                ELSE [[rated2 EXCEPT ![i1].matches = @ + 1] EXCEPT ![i2].matches = @ + 1]
  IN [ratings |-> [c EXCEPT !.players = played], update |-> Undef]

\* recordMatch(player1Id, player2Id, winnerId): the instance afterwards and
\* the EloUpdate returned.  The two players are one object when the ids are
\* equal, so every assignment is applied in the order of the code.
recordMatch(r, player1Id, player2Id, winnerId) ==
  LET c == getOrCreate(getOrCreate(r, player1Id), player2Id)
      i1 == PlayerAt(c, player1Id)
      i2 == PlayerAt(c, player2Id)
      oldRating1 == c.players[i1].rating
      oldRating2 == c.players[i2].rating
      expected1 == expectedScore(oldRating1, oldRating2)
      expected2 == expectedScore(oldRating2, oldRating1)
      actual1 == IF winnerId = Null THEN 500000
                 ELSE IF winnerId = player1Id THEN 1000000 ELSE 0
      actual2 == 1000000 - actual1
      counted ==
        IF winnerId = Null
        THEN [[c.players EXCEPT ![i1].draws = @ + 1] EXCEPT ![i2].draws = @ + 1]
        ELSE IF winnerId = player1Id
        THEN [[c.players EXCEPT ![i1].wins = @ + 1] EXCEPT ![i2].losses = @ + 1]
        ELSE [[c.players EXCEPT ![i1].losses = @ + 1] EXCEPT ![i2].wins = @ + 1]
      rated1 == [counted EXCEPT ![i1].rating =
                   calculateNewRating(@, expected1, actual1, c.kFactor)]
      rated2 == [rated1 EXCEPT ![i2].rating =
                   calculateNewRating(@, expected2, actual2, c.kFactor)]
      played == [[rated2 EXCEPT ![i1].matches = @ + 1] EXCEPT ![i2].matches = @ + 1]
      new1 == played[i1].rating
      new2 == played[i2].rating
      winId == winnerId
      loseId == IF winnerId = Null THEN Null
                ELSE IF winnerId = player1Id THEN player2Id ELSE player1Id
      truthy(id) == id # Null /\ id # Str("")
  IN [ratings |-> [c EXCEPT !.players = played],
      update |->
        [winnerId |-> winId,
         loserId |-> loseId,
         winnerOldRating |-> IF winId = player1Id THEN oldRating1 ELSE oldRating2,
         loserOldRating |-> IF loseId = player1Id THEN oldRating1 ELSE oldRating2,
         winnerNewRating |-> IF winId = player1Id THEN new1 ELSE new2,
         loserNewRating |-> IF loseId = player1Id THEN new1 ELSE new2,
         winnerDelta |-> IF truthy(winId)
                         THEN (IF winId = player1Id THEN new1 - oldRating1
                               ELSE new2 - oldRating2)
                         ELSE 0,
         loserDelta |-> IF truthy(loseId)
                        THEN (IF loseId = player1Id THEN new1 - oldRating1
                              ELSE new2 - oldRating2)
                        ELSE 0]]

\* setRating(playerId, rating): the player's rating is replaced, the counts
\* are kept
setRating(r, playerId, rating) ==
  LET c == getOrCreate(r, playerId)
  IN [c EXCEPT !.players[PlayerAt(c, playerId)].rating = rating]

\* import(data): the Map is cleared and holds a copy of every entry of data,
\* in the order of its keys; data is the sequence of its values, each under
\* the key of its playerId, as export() writes them
import(r, data) == [r EXCEPT !.players = data]

\* the most calls of recordMatch, setRating and import on one instance
MaxRecords == 3

PlayerIds == {Str("alice"), Str("bob"), Str("carol")}

\* kFactor and initialRating of createEloRatings
EloConfigs ==
  {Undef} \cup {Obj(<< <<"kFactor", Num(k)>> >>) : k \in {24, 25}}
          \cup {Obj(<< <<"kFactor", Num(15)>>, <<"initialRating", Num(1200)>> >>)}

NoUpdate == [winnerId |-> Undef]

\* an instance of createEloRatings, with the calls made on it
InitRatings ==
  /\ MatchIdle
  /\ queue = << >>
  /\ \E config \in EloConfigs :
       ratings = [elo |-> createEloRatings(config), calls |-> 0,
                  update |-> NoUpdate, sets |-> 0, imports |-> 0]
  /\ ladder = << >>
  /\ rng = << >>
  /\ objects = << >>

\* the calls made on the instance so far
CallsMade == ratings.calls + ratings.sets + ratings.imports

\* elo.recordMatch(player1Id, player2Id, winnerId): the winner is one of the
\* two, nobody (a draw), or any other id
RecordMatch ==
  /\ CallsMade < MaxRecords
  /\ \E player1Id \in PlayerIds, player2Id \in PlayerIds, winnerId \in PlayerIds \cup {Null} :
       LET r == recordMatch(ratings.elo, player1Id, player2Id, winnerId)
       IN ratings' = [ratings EXCEPT !.elo = r.ratings, !.calls = @ + 1,
                                     !.update = r.update]
  /\ UNCHANGED <<matchVars, ladder, rng, objects, queue>>

\* the ratings given to setRating
SetRatingValues == {1400, 1600}

\* elo.setRating(playerId, rating)
SetRating ==
  /\ CallsMade < MaxRecords
  /\ \E playerId \in PlayerIds, rating \in SetRatingValues :
       ratings' = [ratings EXCEPT !.elo = setRating(@, playerId, rating),
                                  !.sets = @ + 1, !.update = NoUpdate]
  /\ UNCHANGED <<matchVars, ladder, rng, objects, queue>>

\* the objects given to import: what export() gives on an instance where alice
\* has beaten bob, a record written by hand, and the empty object
ImportData ==
  { << [playerId |-> Str("alice"), rating |-> 1516, matches |-> 1, wins |-> 1,
        losses |-> 0, draws |-> 0],
       [playerId |-> Str("bob"), rating |-> 1484, matches |-> 1, wins |-> 0,
        losses |-> 1, draws |-> 0] >>,
    << [playerId |-> Str("carol"), rating |-> 1450, matches |-> 5, wins |-> 1,
        losses |-> 1, draws |-> 1] >>,
    << >> }

\* elo.import(data)
Import ==
  /\ CallsMade < MaxRecords
  /\ \E data \in ImportData :
       ratings' = [ratings EXCEPT !.elo = import(@, data),
                                  !.imports = @ + 1, !.update = NoUpdate]
  /\ UNCHANGED <<matchVars, ladder, rng, objects, queue>>

\* elo.getRating(playerId) of a player the instance may not know yet
GetRating ==
  /\ \E playerId \in PlayerIds :
       /\ ~HasPlayer(ratings.elo, playerId)
       /\ ratings' = [ratings EXCEPT !.elo = getOrCreate(@, playerId)]
  /\ UNCHANGED <<matchVars, ladder, rng, objects, queue>>

NextRatings == RecordMatch \/ GetRating \/ SetRating \/ Import

SpecRatings == InitRatings /\ [][NextRatings]_vars

-----------------------------------------------------------------------------
(* Random numbers (packages/core/src/rng.ts).  A BigInt is the sequence of  *)
(* its binary digits, the lowest first, with no leading zero: 0n is << >>,  *)
(* 6n is <<0, 1, 1>>.  BigInts have no width: nothing is cut off at 64 bits. *)

BigZero == << >>
BigOne == <<1>>

BitAt(a, i) == IF i <= Len(a) THEN a[i] ELSE 0

\* the digits of a without leading zeros
BigTrim(a) ==
  LET ones == {i \in 1..Len(a) : a[i] = 1}
  IN IF ones = {} THEN << >>
     ELSE SubSeq(a, 1, CHOOSE i \in ones : \A j \in ones : j <= i)

\* a ^ b
BigXor(a, b) ==
  BigTrim([i \in 1..(IF Len(a) >= Len(b) THEN Len(a) ELSE Len(b)) |->
             (BitAt(a, i) + BitAt(b, i)) % 2])

\* a << n
BigShiftLeft(a, n) == IF a = << >> THEN << >> ELSE [i \in 1..n |-> 0] \o a

\* a >> n
BigShiftRight(a, n) == IF Len(a) <= n THEN << >> ELSE SubSeq(a, n + 1, Len(a))

\* the number made of the 16 digits of a from position 16 m + 1 on
Limb(a, m) ==
  LET d(k) == BitAt(a, 16 * m + k)
  IN d(1) + 2 * d(2) + 4 * d(3) + 8 * d(4) + 16 * d(5) + 32 * d(6) + 64 * d(7)
     + 128 * d(8) + 256 * d(9) + 512 * d(10) + 1024 * d(11) + 2048 * d(12)
     + 4096 * d(13) + 8192 * d(14) + 16384 * d(15) + 32768 * d(16)

\* the carry of a + b into the digits from position 16 m + 1 on
RECURSIVE BigCarry(_, _, _)
BigCarry(a, b, m) ==
  IF m = 0 THEN 0
  ELSE (Limb(a, m - 1) + Limb(b, m - 1) + BigCarry(a, b, m - 1)) \div 65536

\* a + b, sixteen digits at a time
BigAdd(a, b) ==
  LET n == IF Len(a) >= Len(b) THEN Len(a) ELSE Len(b)
      limbs == [m \in 0..(n \div 16) |->
                  (Limb(a, m) + Limb(b, m) + BigCarry(a, b, m)) % 65536]
      top == BigCarry(a, b, (n \div 16) + 1)
      place == <<1, 2, 4, 8, 16, 32, 64, 128, 256, 512, 1024, 2048, 4096, 8192,
                 16384, 32768>>
  IN BigTrim([i \in 1..(16 * ((n \div 16) + 1) + 1) |->
                IF i = 16 * ((n \div 16) + 1) + 1 THEN top
                ELSE (limbs[(i - 1) \div 16] \div place[((i - 1) % 16) + 1]) % 2])

\* a & 0xffffffffn
BigMask32(a) == BigTrim(SubSeq(a, 1, IF Len(a) < 32 THEN Len(a) ELSE 32))

\* the characters of a hexadecimal string as digits, the first 32 of a digest
HexDigitsOf(hex) ==
  CASE hex = "d63cd08d82aa4eb48e0cc64fb466e909bfc3879664c5caa8d8cdeda73c044190" ->
         << 13, 6, 3, 12, 13, 0, 8, 13, 8, 2, 10, 10, 4, 14, 11, 4, 8, 14, 0, 12, 12, 6, 4, 15, 11, 4, 6, 6, 14, 9, 0, 9 >>
    [] hex = "ba7816bf8f01cfea414140de5dae2223b00361a396177a9cb410ff61f20015ad" ->
         << 11, 10, 7, 8, 1, 6, 11, 15, 8, 15, 0, 1, 12, 15, 14, 10, 4, 1, 4, 1, 4, 0, 13, 14, 5, 13, 10, 14, 2, 2, 2, 3 >>
    [] hex = "e00961cc04e55c4533144d93fda113d960b6ad37e54a86a41bbba4f031e29d92" ->
         << 14, 0, 0, 9, 6, 1, 12, 12, 0, 4, 14, 5, 5, 12, 4, 5, 3, 3, 1, 4, 4, 13, 9, 3, 15, 13, 10, 1, 1, 3, 13, 9 >>
    [] hex = "04f5d0e8d9ed2af7d1bb4641b2e4bd62d4501d6cfd3d65bbab785b3501c9426b" ->
         << 0, 4, 15, 5, 13, 0, 14, 8, 13, 9, 14, 13, 2, 10, 15, 7, 13, 1, 11, 11, 4, 6, 4, 1, 11, 2, 14, 4, 11, 13, 6, 2 >>
    [] hex = "0648560fc0cf73cf6fd40fc0a746606149202b633311d71afd263ff266b46a9f" ->
         << 0, 6, 4, 8, 5, 6, 0, 15, 12, 0, 12, 15, 7, 3, 12, 15, 6, 15, 13, 4, 0, 15, 12, 0, 10, 7, 4, 6, 6, 0, 6, 1 >>
    [] hex = "95a190a3219d34aa007dc1526ae38634f4b1bcd77f9d6310582655aaa02237db" ->
         << 9, 5, 10, 1, 9, 0, 10, 3, 2, 1, 9, 13, 3, 4, 10, 10, 0, 0, 7, 13, 12, 1, 5, 2, 6, 10, 14, 3, 8, 6, 3, 4 >>
    [] hex = "b1143c97ac7ed89e5d2249cca3267c43147c36cc8382572e9d2d6b9ac83d6a0f" ->
         << 11, 1, 1, 4, 3, 12, 9, 7, 10, 12, 7, 14, 13, 8, 9, 14, 5, 13, 2, 2, 4, 9, 12, 12, 10, 3, 2, 6, 7, 12, 4, 3 >>
    [] hex = "bd2bbdf592629f871e68dc325e75edf2417b0cfc02f06d3ee238ed447a41b83a" ->
         << 11, 13, 2, 11, 11, 13, 15, 5, 9, 2, 6, 2, 9, 15, 8, 7, 1, 14, 6, 8, 13, 12, 3, 2, 5, 14, 7, 5, 14, 13, 15, 2 >>
    [] hex = "4702cb8910250c9e8f3cb5ce679e3be1239c0700ce747ee45f1843d34df03738" ->
         << 4, 7, 0, 2, 12, 11, 8, 9, 1, 0, 2, 5, 0, 12, 9, 14, 8, 15, 3, 12, 11, 5, 12, 14, 6, 7, 9, 14, 3, 11, 14, 1 >>
    [] hex = "cbc4670438fa8e2c5a3415e34c00b3c39a254dd5f6a7735751cec5f740a40f63" ->
         << 12, 11, 12, 4, 6, 7, 0, 4, 3, 8, 15, 10, 8, 14, 2, 12, 5, 10, 3, 4, 1, 5, 14, 3, 4, 12, 0, 0, 11, 3, 12, 3 >>
    [] hex = "9870726680ced25d6cea881f8658b1446d0e3855ab581e1a12bfbc87517f70ed" ->
         << 9, 8, 7, 0, 7, 2, 6, 6, 8, 0, 12, 14, 13, 2, 5, 13, 6, 12, 14, 10, 8, 8, 1, 15, 8, 6, 5, 8, 11, 1, 4, 4 >>
    [] hex = "a9780e4db102fa1967b65474abc3f25a8b00d445cd5ec85186993c9eb7c9be11" ->
         << 10, 9, 7, 8, 0, 14, 4, 13, 11, 1, 0, 2, 15, 10, 1, 9, 6, 7, 11, 6, 5, 4, 7, 4, 10, 11, 12, 3, 15, 2, 5, 10 >>
    [] hex = "b327d19c836adf75fff0e2f0c4ba8c32e37883a287348868aa7beb5f3a93b569" ->
         << 11, 3, 2, 7, 13, 1, 9, 12, 8, 3, 6, 10, 13, 15, 7, 5, 15, 15, 15, 0, 14, 2, 15, 0, 12, 4, 11, 10, 8, 12, 3, 2 >>
    [] hex = "3ad3bbb181d509d4498c0728b9f39538dc85f3f7927a9c79f9c356580d015232" ->
         << 3, 10, 13, 3, 11, 11, 11, 1, 8, 1, 13, 5, 0, 9, 13, 4, 4, 9, 8, 12, 0, 7, 2, 8, 11, 9, 15, 3, 9, 5, 3, 8 >>
    [] hex = "de2fa6a82c6cbf9155e786567cc46e87c7246b16ce4a8e8780d2b1733c1ccf0c" ->
         << 13, 14, 2, 15, 10, 6, 10, 8, 2, 12, 6, 12, 11, 15, 9, 1, 5, 5, 14, 7, 8, 6, 5, 6, 7, 12, 12, 4, 6, 14, 8, 7 >>
    [] hex = "237307e4e8e0eb650889162be367a2f7f65def963aba8ee5694a2af6a0883496" ->
         << 2, 3, 7, 3, 0, 7, 14, 4, 14, 8, 14, 0, 14, 11, 6, 5, 0, 8, 8, 9, 1, 6, 2, 11, 14, 3, 6, 7, 10, 2, 15, 7 >>
    [] hex = "8ecae08e9450723634f40efbf0745b6f25195011555f6c07443032939ed20fe7" ->
         << 8, 14, 12, 10, 14, 0, 8, 14, 9, 4, 5, 0, 7, 2, 3, 6, 3, 4, 15, 4, 0, 14, 15, 11, 15, 0, 7, 4, 5, 11, 6, 15 >>
    [] hex = "ac74bb72e3583e4995ae6dc97fbed3986a28ef5bb6c8c1d910211d905eb1d5f7" ->
         << 10, 12, 7, 4, 11, 11, 7, 2, 14, 3, 5, 8, 3, 14, 4, 9, 9, 5, 10, 14, 6, 13, 12, 9, 7, 15, 11, 14, 13, 3, 9, 8 >>
    [] hex = "7b6fbb8f6eeb2100ea729220b0d526be0aec0dd140885f0a3ad3ec9d5caf4f3c" ->
         << 7, 11, 6, 15, 11, 11, 8, 15, 6, 14, 14, 11, 2, 1, 0, 0, 14, 10, 7, 2, 9, 2, 2, 0, 11, 0, 13, 5, 2, 6, 11, 14 >>
    [] hex = "8872a0de26886e8ec1a7584f553e71d2bf20a11e923eec7050449e88c6813d68" ->
         << 8, 8, 7, 2, 10, 0, 13, 14, 2, 6, 8, 8, 6, 14, 8, 14, 12, 1, 10, 7, 5, 8, 4, 15, 5, 5, 3, 14, 7, 1, 13, 2 >>
    [] hex = "86a32f30ccb5343c9e36862e83f1f1ef5b2aa24640ffa0be6e3a5ee82c4fadde" ->
         << 8, 6, 10, 3, 2, 15, 3, 0, 12, 12, 11, 5, 3, 4, 3, 12, 9, 14, 3, 6, 8, 6, 2, 14, 8, 3, 15, 1, 15, 1, 14, 15 >>
    [] hex = "5363eaa3ed393658ce66f0a0eb4db761f9f4febc182a110953b752330d5fecba" ->
         << 5, 3, 6, 3, 14, 10, 10, 3, 14, 13, 3, 9, 3, 6, 5, 8, 12, 14, 6, 6, 15, 0, 10, 0, 14, 11, 4, 13, 11, 7, 6, 1 >>
    [] hex = "953dec73afdea8a22f88cd5505a743c7fed294d4d15e03fd11e75bbb8d4808fc" ->
         << 9, 5, 3, 13, 14, 12, 7, 3, 10, 15, 13, 14, 10, 8, 10, 2, 2, 15, 8, 8, 12, 13, 5, 5, 0, 5, 10, 7, 4, 3, 12, 7 >>
    [] hex = "81c548121973e392b5523f9010be6862733436ac3f3bd61480a69b00155d8f43" ->
         << 8, 1, 12, 5, 4, 8, 1, 2, 1, 9, 7, 3, 14, 3, 9, 2, 11, 5, 5, 2, 3, 15, 9, 0, 1, 0, 11, 14, 6, 8, 6, 2 >>
    [] hex = "9c90b1a1c9d9e5c91c9beea21991984c535e747ae52200c81396e45ef39d9764" ->
         << 9, 12, 9, 0, 11, 1, 10, 1, 12, 9, 13, 9, 14, 5, 12, 9, 1, 12, 9, 11, 14, 14, 10, 2, 1, 9, 9, 1, 9, 8, 4, 12 >>
    [] hex = "41a37d5ded3ed47dbfff0eb2458b5f72f1cf5b6144aab599834c09ccacafa9aa" ->
         << 4, 1, 10, 3, 7, 13, 5, 13, 14, 13, 3, 14, 13, 4, 7, 13, 11, 15, 15, 15, 0, 14, 11, 2, 4, 5, 8, 11, 5, 15, 7, 2 >>
    [] hex = "be944bd458891c96c3c991d162658072ac8e2d4e71eed4cc762a9f1fa9d2a244" ->
         << 11, 14, 9, 4, 4, 11, 13, 4, 5, 8, 8, 9, 1, 12, 9, 6, 12, 3, 12, 9, 9, 1, 13, 1, 6, 2, 6, 5, 8, 0, 7, 2 >>
    [] hex = "836a526491e8eb9ac707e40b723edbcf1e2a6112025b332bcc1140bd03f67d48" ->
         << 8, 3, 6, 10, 5, 2, 6, 4, 9, 1, 14, 8, 14, 11, 9, 10, 12, 7, 0, 7, 14, 4, 0, 11, 7, 2, 3, 14, 13, 11, 12, 15 >>
    [] hex = "c64d3ea4bb7e41030f74c08bbbe5e4ac77b90d98ca83e023d2bd898503a9af05" ->
         << 12, 6, 4, 13, 3, 14, 10, 4, 11, 11, 7, 14, 4, 1, 0, 3, 0, 15, 7, 4, 12, 0, 8, 11, 11, 11, 14, 5, 14, 4, 10, 12 >>
    [] hex = "bd04bd0faf083df6d7c5ad3624dbc3e17be4ba5b9640fd746f7d3415339af412" ->
         << 11, 13, 0, 4, 11, 13, 0, 15, 10, 15, 0, 8, 3, 13, 15, 6, 13, 7, 12, 5, 10, 13, 3, 6, 2, 4, 13, 11, 12, 3, 14, 1 >>
    [] hex = "fe9b9ea280e9348bcb69324e378069614a1d4de4c2362b869321f9af98f4988a" ->
         << 15, 14, 9, 11, 9, 14, 10, 2, 8, 0, 14, 9, 3, 4, 8, 11, 12, 11, 6, 9, 3, 2, 4, 14, 3, 7, 8, 0, 6, 9, 6, 1 >>
    [] hex = "6c26263c4a7af5803bcc6412f812731af134bb8bf2339bc8bb308e17ae13383d" ->
         << 6, 12, 2, 6, 2, 6, 3, 12, 4, 10, 7, 10, 15, 5, 8, 0, 3, 11, 12, 12, 6, 4, 1, 2, 15, 8, 1, 2, 7, 3, 1, 10 >>
    [] hex = "6d7f24f682f7d396bca3060fe6e2c213e93ac65afa8c85f90c097157ebd9db12" ->
         << 6, 13, 7, 15, 2, 4, 15, 6, 8, 2, 15, 7, 13, 3, 9, 6, 11, 12, 10, 3, 0, 6, 0, 15, 14, 6, 14, 2, 12, 2, 1, 3 >>
    [] hex = "19e6451a677a47739624d6f3a445286009845c97774027c3cd3b8f1128ce5743" ->
         << 1, 9, 14, 6, 4, 5, 1, 10, 6, 7, 7, 10, 4, 7, 7, 3, 9, 6, 2, 4, 13, 6, 15, 3, 10, 4, 4, 5, 2, 8, 6, 0 >>
    [] hex = "c57cc374239be8ae6a10f3b589b12c3c6611cfe91c56f31dd3038a7581f6d97e" ->
         << 12, 5, 7, 12, 12, 3, 7, 4, 2, 3, 9, 11, 14, 8, 10, 14, 6, 10, 1, 0, 15, 3, 11, 5, 8, 9, 11, 1, 2, 12, 3, 12 >>
    [] hex = "90a9f13b5b168ffe144e6dbf15792c8cb0ae18ec5f7e4c983151c85176d4ff20" ->
         << 9, 0, 10, 9, 15, 1, 3, 11, 5, 11, 1, 6, 8, 15, 15, 14, 1, 4, 4, 14, 6, 13, 11, 15, 1, 5, 7, 9, 2, 12, 8, 12 >>
    [] hex = "c16e84f60b4297998ae32a1d4cab9f5e8005f7e9fba3993fdcd1b2d5a00b7341" ->
         << 12, 1, 6, 14, 8, 4, 15, 6, 0, 11, 4, 2, 9, 7, 9, 9, 8, 10, 14, 3, 2, 10, 1, 13, 4, 12, 10, 11, 9, 15, 5, 14 >>

\* BigInt("0x" + digits) for hexadecimal digits, the highest first
BigFromHex(digits) ==
  LET bit(i) ==
        LET d == digits[Len(digits) - ((i - 1) \div 4)]
            place == (i - 1) % 4
        IN (d \div (IF place = 0 THEN 1 ELSE IF place = 1 THEN 2
                    ELSE IF place = 2 THEN 4 ELSE 8)) % 2
  IN BigTrim([i \in 1..(4 * Len(digits)) |-> bit(i)])

\* an xorshift128plus whose result is not cut to 32 bits
xorshift128plusUnmasked(st) ==
  LET a == st.s0
      s0 == st.s1
      b == BigXor(a, BigShiftLeft(a, 23))
      c == BigXor(b, BigShiftRight(b, 18))
      d == BigXor(c, s0)
      s1 == BigXor(d, BigShiftRight(s0, 5))
  IN [value |-> BigAdd(s0, s1), state |-> [s0 |-> s0, s1 |-> s1]]

\* xorshift128plus(state): Number(result) and the new state
xorshift128plus(st) ==
  LET a == st.s0
      s0 == st.s1
      b == BigXor(a, BigShiftLeft(a, 23))
      c == BigXor(b, BigShiftRight(b, 18))
      d == BigXor(c, s0)
      s1 == BigXor(d, BigShiftRight(s0, 5))
  IN [value |-> BigMask32(BigAdd(s0, s1)), state |-> [s0 |-> s0, s1 |-> s1]]

\* seedToState(seed): hash.slice(0, 16) and hash.slice(16, 32), 1n for 0n
seedToState(seed) ==
  LET digits == HexDigitsOf(sha256(seed))
      s0 == BigFromHex(SubSeq(digits, 1, 16))
      s1 == BigFromHex(SubSeq(digits, 17, 32))
  IN [s0 |-> IF s0 = BigZero THEN BigOne ELSE s0,
      s1 |-> IF s1 = BigZero THEN BigOne ELSE s1]

\* createRng(seed): new XorshiftRng(seed), with the values it has returned
createRng(seed) == [seed |-> seed, state |-> seedToState(seed), drawn |-> << >>]

\* rng.nextUint32(): value >>> 0 of a value below 2^32 is the value
nextUint32(r) ==
  LET x == xorshift128plus(r.state)
  IN [value |-> x.value,
      rng |-> [r EXCEPT !.state = x.state, !.drawn = Append(@, x.value)]]

\* the most nextUint32 calls on one generator
MaxDraws == 4

RngSeeds == {"test-seed", "abc", "seed-a", "seed-b", "range-test"}

\* no generator has been made
InitRng ==
  /\ MatchIdle
  /\ queue = << >>
  /\ rng = << >>
  /\ ladder = << >>
  /\ ratings = << >>
  /\ objects = << >>

\* createRng(seed): the first or the second of the two generators that are
\* compared, the second made at any time in the life of the first; its
\* state is a field of the new object
CreateRng ==
  /\ Len(rng) < 2
  /\ \E seed \in RngSeeds : rng' = Append(rng, createRng(seed))
  /\ UNCHANGED <<matchVars, ladder, ratings, objects, queue>>

\* a nextUint32 of generators that keep their state in one variable shared
\* by all of them instead of a field of each
NextUint32SharedState ==
  /\ \E k \in 1..Len(rng) :
       /\ Len(rng[k].drawn) < MaxDraws
       /\ \E r \in {nextUint32(rng[k]).rng} :
            rng' = [j \in 1..Len(rng) |->
                      IF j = k THEN r ELSE [rng[j] EXCEPT !.state = r.state]]
  /\ UNCHANGED <<matchVars, ladder, ratings, objects, queue>>

\* one of the generators is asked for its next number: this.state of that
\* generator is replaced, no other generator is touched
NextUint32 ==
  /\ \E k \in 1..Len(rng) :
       /\ Len(rng[k].drawn) < MaxDraws
       /\ rng' = [rng EXCEPT ![k] = nextUint32(rng[k]).rng]
  /\ UNCHANGED <<matchVars, ladder, ratings, objects, queue>>

NextRng == CreateRng \/ NextUint32

SpecRng == InitRng /\ [][NextRng]_vars

-----------------------------------------------------------------------------
(* The ladder (packages/core/src/ladder.ts) and the agents it is run with.   *)
(* A match of the ladder is runMatch from start to end with agents that      *)
(* answer in time with a legal action.                                       *)

\* a * n for a small number n
RECURSIVE BigTimes(_, _)
BigTimes(a, n) ==
  IF n = 0 THEN BigZero
  ELSE CHOOSE product \in {BigAdd(a, rest) : rest \in {BigTimes(a, n - 1)}} : TRUE

\* Number(a) of a BigInt of a few digits
RECURSIVE BigToNat(_)
BigToNat(a) == IF a = << >> THEN 0 ELSE a[1] + 2 * BigToNat(SubSeq(a, 2, Len(a)))

\* Math.floor(rng.nextFloat() * n), with nextFloat() = nextUint32() / 2^32
pickIndex(r, n) ==
  CHOOSE index \in {BigToNat(scaled) :
                      scaled \in {BigShiftRight(BigTimes(value, n), 32) :
                                    value \in {nextUint32(r).value}}} : TRUE

\* rng.pick(arr) of a generator
pick(r, arr) == arr[pickIndex(r, Len(arr)) + 1]

\* the test agent of the ladder tests and the random agent
FirstAgent(id) == [id |-> Str(id), kind |-> "first"]
RandomAgent == [id |-> Str("random"), kind |-> "random"]

\* the seed of the random agent's generator for a turn of a match
RandomAgentSeed(id, turn) == "random-agent:" \o id \o ":" \o ToString(turn)

\* what the random agent picks among the three moves in the first turns of
\* the matches of the model, computed once
RandomAgentPicks ==
  [id \in {generateMatchId(clock, random) : clock \in 0..MaxWall, random \in MathRandoms},
   turn \in 0..1 |->
     pick(createRng(RandomAgentSeed(id, turn)), LEGAL_ACTIONS)]

\* agent.decide(input).action
decide(agent, id, turn, legalActions) ==
  IF agent.kind = "first" THEN legalActions[1]
  ELSE IF legalActions = LEGAL_ACTIONS /\ <<id, turn>> \in DOMAIN RandomAgentPicks
  THEN RandomAgentPicks[id, turn]
  ELSE pick(createRng(RandomAgentSeed(id, turn)), legalActions)

\* the game loop of runMatch from a state on: the final state and turnIndex
RECURSIVE PlayTurns(_, _, _, _, _)
PlayTurns(g, st, turn, agents, id) ==
  IF IsTerminal(g, st) \/ CurrentPlayer(g, st) = Null
  THEN [state |-> st, turnIndex |-> turn]
  ELSE LET p == CurrentPlayer(g, st).v
           legal == LegalActions(g, st, p)
           d == DecideOutcome(decide(agents[p + 1], id, turn, legal), legal)
           val == Validate(d.action, legal)
       IN PlayTurns(g, Step(g, st, p, val.action).state, turn + 1, agents, id)

\* runMatch(game, agents, {seed, gameConfig}): the report.  No matchId is
\* passed, so the match gets a generated one.
playMatch(g, agents, seed, gameConfig, clock, random) ==
  LET id == generateMatchId(clock, random)
  IN CHOOSE report \in
       {[matchId |-> id, seed |-> seed,
         results |-> GetResults(g, end.state).results,
         totalTurns |-> end.turnIndex, totalTimeMs |-> clock] :
          end \in {PlayTurns(g, Reset(g, seed, gameConfig, Len(agents)).state,
                             0, agents, id)}} : TRUE

\* the pairs from position (i, j) of the two loops on
RECURSIVE PairsFrom(_, _, _)
PairsFrom(agents, i, j) ==
  IF i > Len(agents) THEN << >>
  ELSE IF j > Len(agents) THEN PairsFrom(agents, i + 1, i + 2)
  ELSE << <<agents[i], agents[j]>> >> \o PairsFrom(agents, i, j + 1)

\* pairs that are taken in both orders
generateAllOrderedPairs(agents) ==
  PairsFrom(agents, 1, 2) \o
  [k \in 1..Len(PairsFrom(agents, 1, 2)) |->
     <<PairsFrom(agents, 1, 2)[k][2], PairsFrom(agents, 1, 2)[k][1]>>]

generateRoundRobinPairs(agents) == PairsFrom(agents, 1, 2)

\* the most matchesPerPair of a ladder
MaxMatchesPerPair == 2

LadderAgentLists ==
  { <<FirstAgent("alice"), FirstAgent("bob")>>,
    <<FirstAgent("alice"), RandomAgent>>,
    <<FirstAgent("alice"), RandomAgent, FirstAgent("bob")>> }

\* LadderConfig: matchesPerPair and seed given or not, one round of RPS
LadderConfigs ==
  {Obj(<< <<"gameConfig", Obj(<< <<"rounds", Num(1)>> >>)>> >>)}
  \cup {Obj(<< <<"matchesPerPair", Num(m)>>, <<"seed", Str("test-ladder")>>,
               <<"gameConfig", Obj(<< <<"rounds", Num(1)>> >>)>> >>) :
          m \in 0..MaxMatchesPerPair}

matchesPerPairOf(config) ==
  IF Get(config, "matchesPerPair") \in {Undef, Null} THEN 1
  ELSE Get(config, "matchesPerPair").v

baseSeedOf(config) ==
  IF Get(config, "seed") \in {Undef, Null} THEN "ladder" ELSE Get(config, "seed").v

\* runLadder up to its loops: the ratings instance knows every agent
NewLadderRatings(agents, config) ==
  LET RECURSIVE known(_)
      known(n) == IF n = 0 THEN createEloRatings(Get(config, "elo"))
                  ELSE getOrCreate(known(n - 1), agents[n].id)
  IN [elo |-> known(Len(agents)), calls |-> 0, update |-> NoUpdate,
      sets |-> 0, imports |-> 0]

\* winnerId of every match, in order
WinnersOf(matches) == [k \in 1..Len(matches) |-> matches[k].winnerId]

NewLadder(agents, config, r, first) ==
  [game |-> "rps", agents |-> agents, config |-> config,
   pair |-> 1, matchNum |-> 0, matches |-> << >>, totalTurns |-> 0,
   totalTimeMs |-> 0, returned |-> FALSE, leaderboard |-> << >>,
   run |-> r, first |-> first]

InitLadder ==
  /\ MatchIdle
  /\ queue = << >>
  /\ \E agents \in LadderAgentLists, config \in LadderConfigs :
       /\ ladder = NewLadder(agents, config, 1, << >>)
       /\ ratings = NewLadderRatings(agents, config)
  /\ rng = << >>
  /\ objects = << >>

\* the two loops have more to do
LadderContinues ==
  /\ ladder.pair <= Len(generateRoundRobinPairs(ladder.agents))
  /\ ladder.matchNum < matchesPerPairOf(ladder.config)

\* a winner taken from the seat that did not win
winnerIdOfOtherSeat(report, orderedAgents) ==
  IF report.results.isDraw = Bool(FALSE)
  THEN orderedAgents[2 - report.results.winner.v].id
  ELSE Null

\* "Determine winner": the id of the agent in the winning seat, null for a
\* draw
winnerIdOf(report, orderedAgents) ==
  IF report.results.isDraw = Bool(FALSE)
  THEN orderedAgents[report.results.winner.v + 1].id
  ELSE Null

\* one pass of the inner loop: the match, the winner, recordMatch, the result
LadderMatch ==
  /\ ~ladder.returned
  /\ LadderContinues
  /\ \E clock \in 0..MaxWall, random \in MathRandoms :
     \E agent1 \in {generateRoundRobinPairs(ladder.agents)[ladder.pair][1]} :
     \E agent2 \in {generateRoundRobinPairs(ladder.agents)[ladder.pair][2]} :
     \E orderedAgents \in {IF ladder.matchNum % 2 = 0 THEN <<agent1, agent2>>
                            ELSE <<agent2, agent1>>} :
     \E report \in {playMatch(ladder.game, orderedAgents,
                              baseSeedOf(ladder.config) \o ":" \o agent1.id.v \o ":"
                                \o agent2.id.v \o ":" \o ToString(ladder.matchNum),
                              Get(ladder.config, "gameConfig"), clock, random)} :
     \E winnerId \in {winnerIdOf(report, orderedAgents)} :
     \E rec \in {recordMatch(ratings.elo, agent1.id, agent2.id, winnerId)} :
       LET matchNum == ladder.matchNum
           p1Rating == getRating(ratings.elo, agent1.id)
           p2Rating == getRating(ratings.elo, agent2.id)
           result == [match |-> report, seats |-> <<orderedAgents[1].id, orderedAgents[2].id>>,
                      player1 |-> agent1.id, player2 |-> agent2.id,
                      winnerId |-> winnerId,
                      ratingUpdate |->
                        [player1Before |-> p1Rating,
                         player1After |-> getRating(rec.ratings, agent1.id),
                         player2Before |-> p2Rating,
                         player2After |-> getRating(rec.ratings, agent2.id)]]
           last == matchNum + 1 >= matchesPerPairOf(ladder.config)
       IN /\ ratings' = [ratings EXCEPT !.elo = rec.ratings, !.calls = @ + 1,
                                        !.update = rec.update]
          /\ ladder' = [ladder EXCEPT
                          !.matches = Append(@, result),
                          !.totalTurns = @ + report.totalTurns,
                          !.totalTimeMs = @ + report.totalTimeMs,
                          !.matchNum = IF last THEN 0 ELSE matchNum + 1,
                          !.pair = IF last THEN @ + 1 ELSE @]
  /\ UNCHANGED <<matchVars, rng, objects, queue>>

\* the loops are over: runLadder returns matches, ratings, leaderboard, stats
LadderReturns ==
  /\ ~ladder.returned
  /\ ~LadderContinues
  /\ ladder' = [ladder EXCEPT !.returned = TRUE,
                              !.leaderboard = getLeaderboard(ratings.elo)]
  /\ UNCHANGED <<matchVars, ratings, rng, objects, queue>>

\* the most matches of a ladder that is run a second time
MaxRerunMatches == 2

\* runLadder is called again with the same game, agents and config
LadderAgain ==
  /\ ladder.returned
  /\ ladder.run = 1
  /\ Len(ladder.matches) <= MaxRerunMatches
  /\ ladder' = NewLadder(ladder.agents, ladder.config, 2,
                         [winners |-> WinnersOf(ladder.matches),
                          players |-> ratings.elo.players,
                          leaderboard |-> ladder.leaderboard])
  /\ ratings' = NewLadderRatings(ladder.agents, ladder.config)
  /\ UNCHANGED <<matchVars, rng, objects, queue>>

NextLadder == LadderMatch \/ LadderReturns \/ LadderAgain

SpecLadder == InitLadder /\ [][NextLadder]_vars

-----------------------------------------------------------------------------
(* hashObject on pairs of values (packages/core/src/crypto.ts), and the     *)
(* comparison replayMatch makes of an observation's hash with the logged one *)

\* an object with its two properties in the order given or swapped
Ordered(props, swapped) == Obj(IF swapped THEN <<props[2], props[1]>> ELSE props)

\* observations with a nested object: {round, history: [{myMove, round}]},
\* each object with its keys in either order
HashValues ==
  {Ordered(<< <<"round", Num(r)>>,
              <<"history", Arr(<<Ordered(<< <<"myMove", Str(m)>>,
                                            <<"round", Num(q)>> >>, inner)>>)>> >>,
           outer) :
     r \in 1..2, q \in 1..2, m \in {"rock", "paper"},
     inner \in BOOLEAN, outer \in BOOLEAN}

\* the observation a replay computes, and the observation whose hash the
\* log holds
InitHash ==
  /\ MatchIdle
  /\ queue = << >>
  /\ \E computed \in HashValues, logged \in HashValues :
       objects = [computed |-> computed, logged |-> logged, hashed |-> FALSE]
  /\ ladder = << >>
  /\ ratings = << >>
  /\ rng = << >>

\* both are hashed, and the replay compares the two hashes
HashObjects ==
  /\ ~objects.hashed
  /\ LET observationHash == hashObject(objects.computed)
         logged == hashObject(objects.logged)
     IN objects' = [computed |-> objects.computed, logged |-> objects.logged,
                    hashed |-> TRUE, observationHash |-> observationHash,
                    loggedHash |-> logged,
                    mismatch |-> observationHash # logged]
  /\ UNCHANGED <<matchVars, ladder, ratings, rng, queue>>

NextHash == HashObjects

SpecHash == InitHash /\ [][NextHash]_vars

-----------------------------------------------------------------------------
(* The legality test of runMatch on object actions: the actions of Texas     *)
(* Hold'em, {type} and {type, amount}                                        *)

\* the legalActions lists of seats in some betting spots, as the objects
\* texasHoldem.legalActions returns
ActionLists ==
  LET spots == {sp \in [chips : {5, 10, 15, 30, 50, 100, 1000}, currentBet : {0, 10},
                        toMatch : {0, 10, 20, 40, 60}, minRaise : {10, 20, 40}] :
                  sp.toMatch >= sp.currentBet}
      player(sp) == [chips |-> sp.chips, currentBet |-> sp.currentBet]
      betting(sp) == [currentBet |-> sp.toMatch, minRaise |-> sp.minRaise]
      legal(sp) == HoldemLegalActions([players |-> <<player(sp)>>,
                                       betting |-> betting(sp)], 0)
  IN {[i \in 1..Len(legal(sp)) |-> TexasHoldemAction(legal(sp)[i])] : sp \in spots}

\* the object o built with its properties in the opposite order
Reversed(o) == Obj([i \in 1..Len(o.v) |-> o.v[Len(o.v) + 1 - i]])

\* the legal actions of a turn and the action the agent answered with: one
\* of the legal actions with its keys in either order, or one not offered
InitAction ==
  /\ MatchIdle
  /\ queue = << >>
  /\ \E legal \in ActionLists :
     \E rawAction \in {legal[i] : i \in 1..Len(legal)}
                       \cup {Reversed(legal[i]) : i \in 1..Len(legal)}
                       \cup {Obj(<< <<"type", Str("bogus")>> >>), Null} :
       objects = [legal |-> legal, rawAction |-> rawAction, validated |-> FALSE]
  /\ ladder = << >>
  /\ ratings = << >>
  /\ rng = << >>

\* "Validate action" of the turn loop
ValidateAction ==
  /\ ~objects.validated
  /\ \E v \in {Validate(objects.rawAction, objects.legal)} :
       objects' = [legal |-> objects.legal, rawAction |-> objects.rawAction,
                   validated |-> TRUE, action |-> v.action,
                   illegalAction |-> v.illegalAction,
                   originalAction |-> v.originalAction]
  /\ UNCHANGED <<matchVars, ladder, ratings, rng, queue>>

NextAction == ValidateAction

SpecAction == InitAction /\ [][NextAction]_vars

-----------------------------------------------------------------------------
(* Hold'em played by runMatch with agents none of whose decisions is taken:  *)
(* every turn steps legalActions[0]                                          *)

\* most hands played in a match whose decisions all fall back
MaxFallbackHands == 5

\* what the course of a hand depends on when no showdown is reached: the
\* state without its cards and its hand number
HandPosition(st) ==
  [players |-> [i \in 1..Len(st.players) |->
                  [chips |-> st.players[i].chips,
                   currentBet |-> st.players[i].currentBet,
                   totalInvested |-> st.players[i].totalInvested,
                   status |-> st.players[i].status,
                   hasActed |-> st.players[i].hasActed]],
   buttonPosition |-> st.buttonPosition,
   betting |-> st.betting,
   currentPlayer |-> st.currentPlayer]

\* game.reset; `objects` keeps the position every hand started in
FallbackStart ==
  /\ pc = "holdem_init"
  /\ \E first \in {HoldemReset(input.seed, input.gameConfig, input.numAgents)} :
       /\ state' = first
       /\ objects' = <<HandPosition(first)>>
  /\ pc' = "holdem"
  /\ UNCHANGED <<input, wall, matchId, turnIndex, events, onEventCalls, pending, script,
                 stepCalls, lastStep, run, firstEvents, verdict, inflight, runner,
                 ladder, ratings, rng, queue>>

\* one pass of the game loop: the timer wins the race, or the agent answers
\* with something legalActions does not hold; legalActions[0] is stepped
FallbackTurn ==
  /\ pc = "holdem"
  /\ ~HoldemIsTerminal(state)
  /\ HoldemCurrentPlayer(state) # -1
  /\ state.handNumber <= MaxFallbackHands
  /\ \E result \in {Null, Undef, Num(999), Obj(<< <<"type", Str("bogus")>> >>)} :
     \E playerId \in {HoldemCurrentPlayer(state)} :
     \E legal \in {HoldemLegalActions(state, playerId)} :
     \E val \in {Validate(DecideOutcome(result,
                                         [i \in 1..Len(legal) |->
                                            TexasHoldemAction(legal[i])]).action,
                           [i \in 1..Len(legal) |-> TexasHoldemAction(legal[i])])} :
     \E action \in {legal[i] : i \in 1..Len(legal)} :
       /\ TexasHoldemAction(action) = val.action
       /\ \E solver \in SolversFor(state, action) :
          \E r \in {HoldemStep(state, playerId, action,
                                HoldemShuffle(input.seed, state.handNumber), solver)} :
            /\ state' = r.state
            /\ lastStep' = [called |-> TRUE, playerId |-> playerId,
                            action |-> r.action, kind |-> r.kind,
                            listed |-> ~val.illegalAction,
                            timedOut |-> result = Null,
                            originalAction |-> val.originalAction,
                            before |-> state, settled |-> r.settled]
            /\ objects' = IF r.kind \in {"fold_out", "showdown"}
                             /\ ~isMatchOver(r.settled)
                          THEN Append(objects, HandPosition(r.state))
                          ELSE objects
       /\ turnIndex' = turnIndex + 1
  /\ UNCHANGED <<input, wall, pc, matchId, events, onEventCalls, pending, script,
                 stepCalls, run, firstEvents, verdict, inflight, runner,
                 ladder, ratings, rng, queue>>

NextFallback == FallbackStart \/ FallbackTurn

SpecFallback == InitHoldem /\ [][NextFallback]_vars

-----------------------------------------------------------------------------
(* Texas Hold'em with string actions (game id "texas_holdem", one hand a    *)
(* match).  Seats are numbered from 0; players[s + 1] is seat s.  A card is *)
(* rank and suit, "Ah".  The action `raise_${n}` is [name |-> "raise",      *)
(* amount |-> n], any other action string s is [name |-> s]; no seat (null) *)
(* is -1 and no winners (null) is << >>.                                    *)

createDeck ==
  << "2h", "3h", "4h", "5h", "6h", "7h", "8h", "9h", "Th", "Jh", "Qh", "Kh", "Ah",
     "2d", "3d", "4d", "5d", "6d", "7d", "8d", "9d", "Td", "Jd", "Qd", "Kd", "Ad",
     "2c", "3c", "4c", "5c", "6c", "7c", "8c", "9c", "Tc", "Jc", "Qc", "Kc", "Ac",
     "2s", "3s", "4s", "5s", "6s", "7s", "8s", "9s", "Ts", "Js", "Qs", "Ks", "As" >>

\* the deck of reset: createRng(seed).shuffle(createDeck())
StringHoldemShuffle(seed) ==
  CASE seed = "test-seed" -> HoldemShuffle(seed, 1)
    [] seed = "fold-test" ->
      << "5c", "6c", "Ks", "Jd", "Th", "Kd", "3s", "Kh", "4c", "Qd", "9c", "6s", "5d",
        "Ah", "3c", "Td", "7h", "2h", "Qh", "Js", "Qc", "7d", "As", "4d", "9s", "9d",
        "2d", "3h", "6d", "Qs", "Ad", "Jh", "8d", "2s", "5h", "6h", "Kc", "Ts", "4s",
        "5s", "8s", "7c", "2c", "Tc", "Ac", "8h", "Jc", "3d", "7s", "4h", "8c", "9h" >>
    [] seed = "abc" ->
      << "7d", "Jc", "5d", "8c", "2h", "2c", "Ad", "3s", "8d", "Jh", "2d", "6d", "3c",
        "3h", "8h", "7c", "4d", "Td", "7s", "6h", "6c", "Th", "5s", "6s", "2s", "Ts",
        "Kc", "Qc", "9h", "Qd", "Ac", "Jd", "Qs", "As", "Ks", "Tc", "5c", "Js", "4s",
        "3d", "9s", "Qh", "4h", "7h", "Ah", "Kh", "9d", "Kd", "8s", "9c", "5h", "4c" >>

\* RANK_VALUES[card.rank] and card.suit (0 is "h") of a card of the deck
RankValue(card) ==
  (((CHOOSE i \in 1..52 : createDeck[i] = card) - 1) % 13) + 2

SuitOf(card) == ((CHOOSE i \in 1..52 : createDeck[i] = card) - 1) \div 13

\* the numbers of a set, highest first
RECURSIVE SetSortDesc(_)
SetSortDesc(S) ==
  IF S = {} THEN << >>
  ELSE LET m == CHOOSE x \in S : \A y \in S : y <= x
       IN <<m>> \o SetSortDesc(S \ {m})

\* [...].sort((a, b) => b - a) of a sequence of numbers
RECURSIVE SortDesc(_)
SortDesc(s) ==
  IF s = << >> THEN << >>
  ELSE LET m == CHOOSE i \in 1..Len(s) : \A j \in 1..Len(s) : s[j] <= s[i]
       IN <<s[m]>> \o SortDesc([j \in 1..(Len(s) - 1) |->
                                   IF j < m THEN s[j] ELSE s[j + 1]])

HAND_RANK_VALUES(rank) ==
  CASE rank = "high_card" -> 1
    [] rank = "pair" -> 2
    [] rank = "two_pair" -> 3
    [] rank = "three_of_a_kind" -> 4
    [] rank = "straight" -> 5
    [] rank = "flush" -> 6
    [] rank = "full_house" -> 7
    [] rank = "four_of_a_kind" -> 8
    [] rank = "straight_flush" -> 9
    [] rank = "royal_flush" -> 10

\* the return value of evaluateHand
HandEvaluation(rank, tiebreakers) ==
  [rank |-> rank, rankValue |-> HAND_RANK_VALUES(rank), tiebreakers |-> tiebreakers]

\* evaluateHand after its counting: rankValues are the rank values highest
\* first, isFlush says that one suit was counted five times
HandOfCounts(rankValues, isFlush) ==
  LET isWheel == rankValues = <<14, 5, 4, 3, 2>>
      isStraight == isWheel \/ \A i \in 2..5 : rankValues[i - 1] - rankValues[i] = 1
      ranks == {rankValues[i] : i \in 1..5}
      rankCount(r) == Cardinality({i \in 1..5 : rankValues[i] = r})
      \* by count, then by rank, highest first
      order == SetSortDesc({(rankCount(r) * 100) + r : r \in ranks})
      counts == [i \in 1..Len(order) |-> [rank |-> order[i] % 100,
                                          count |-> order[i] \div 100]]
      topCount == counts[1].count
      secondCount == IF Len(counts) >= 2 THEN counts[2].count ELSE 0
      kickers == [i \in 1..(Len(counts) - 1) |-> counts[i + 1].rank]
  IN IF isFlush /\ isStraight /\ rankValues[1] = 14 /\ ~isWheel
     THEN HandEvaluation("royal_flush", << >>)
     ELSE IF isFlush /\ isStraight
     THEN HandEvaluation("straight_flush", IF isWheel THEN <<5>> ELSE <<rankValues[1]>>)
     ELSE IF topCount = 4
     THEN HandEvaluation("four_of_a_kind", <<counts[1].rank, counts[2].rank>>)
     ELSE IF topCount = 3 /\ secondCount = 2
     THEN HandEvaluation("full_house", <<counts[1].rank, counts[2].rank>>)
     ELSE IF isFlush
     THEN HandEvaluation("flush", rankValues)
     ELSE IF isStraight
     THEN HandEvaluation("straight", IF isWheel THEN <<5>> ELSE <<rankValues[1]>>)
     ELSE IF topCount = 3
     THEN HandEvaluation("three_of_a_kind", <<counts[1].rank>> \o kickers)
     ELSE IF topCount = 2 /\ secondCount = 2
     THEN HandEvaluation("two_pair", <<counts[1].rank, counts[2].rank, counts[3].rank>>)
     ELSE IF topCount = 2
     THEN HandEvaluation("pair", <<counts[1].rank>> \o kickers)
     ELSE HandEvaluation("high_card", rankValues)

\* evaluateHand(cards) of five cards
evaluateHand(cards) ==
  CHOOSE e \in {HandOfCounts(rankValues, isFlush) :
                   rankValues \in {SortDesc([i \in 1..5 |-> RankValue(cards[i])])},
                   isFlush \in {\E s \in 0..3 : \A i \in 1..5 : SuitOf(cards[i]) = s}} :
    TRUE

\* compareHands(a, b): positive when a beats b, 0 when they are equal
compareHands(a, b) ==
  IF a.rankValue # b.rankValue THEN a.rankValue - b.rankValue
  ELSE LET av(i) == IF i <= Len(a.tiebreakers) THEN a.tiebreakers[i] ELSE 0
           bv(i) == IF i <= Len(b.tiebreakers) THEN b.tiebreakers[i] ELSE 0
           differ == {i \in 1..Max(Len(a.tiebreakers), Len(b.tiebreakers)) :
                        av(i) # bv(i)}
       IN IF differ = {} THEN 0
          ELSE LET i == CHOOSE d \in differ : \A o \in differ : d <= o
               IN av(i) - bv(i)

\* the first of the evaluations that none of them beats
BestOf(evals) == CHOOSE e \in evals : \A o \in evals : compareHands(e, o) >= 0

\* findBestHand(cards) of five cards and more: the best of all their
\* five-card combinations
findBestHand(cards) ==
  CHOOSE best \in
    {BestOf(evals) :
       evals \in {{evaluateHand([i \in 1..5 |-> cards[SetSortDesc(combo)[6 - i]]]) :
                     combo \in {c \in SUBSET (1..Len(cards)) : Cardinality(c) = 5}}}} :
    TRUE

\* the seats of the best of the evaluations, lowest seat first
SeatsOfBest(seats, evals) ==
  LET best == BestOf({evals[s] : s \in seats})
      ties == SetSortDesc({s \in seats : compareHands(evals[s], best) = 0})
  IN [i \in 1..Len(ties) |-> ties[Len(ties) + 1 - i]]

\* determineWinners(players, communityCards)
determineWinners(players, communityCards) ==
  LET activePlayers == {s \in 0..(Len(players) - 1) : ~players[s + 1].folded}
  IN IF activePlayers = {} THEN << >>
     ELSE IF Cardinality(activePlayers) = 1
     THEN <<CHOOSE s \in activePlayers : TRUE>>
     ELSE CHOOSE winners \in
            {SeatsOfBest(activePlayers, evals) :
               evals \in {[s \in activePlayers |->
                             findBestHand(players[s + 1].hand \o communityCards)]}} :
            TRUE

\* getNextActivePlayer(players, currentIndex, skipAllIn)
getNextActivePlayer(players, currentIndex, skipAllIn) ==
  LET n == Len(players)
      found == {i \in 1..n :
                  LET player == players[((currentIndex + i) % n) + 1]
                  IN ~player.folded /\ (~skipAllIn \/ ~player.allIn)}
  IN IF found = {} THEN -1
     ELSE (currentIndex + (CHOOSE i \in found : \A j \in found : i <= j)) % n

countActivePlayers(players) ==
  Cardinality({i \in 1..Len(players) : ~players[i].folded})

\* isBettingRoundComplete; it reads neither lastAggressor nor the player index
isBettingRoundComplete(players, currentBet, playersActed) ==
  LET bettingPlayers == {i \in 1..Len(players) :
                           ~players[i].folded /\ ~players[i].allIn}
  IN IF Cardinality(bettingPlayers) <= 1 THEN TRUE
     ELSE IF \E i \in bettingPlayers : (i - 1) \notin playersActed THEN FALSE
     ELSE IF \E i \in bettingPlayers : players[i].bet < currentBet THEN FALSE
     ELSE TRUE

\* getLegalActions(state) of the string-action game
StringGetLegalActions(st) ==
  IF st.handComplete \/ st.round \in {"showdown", "complete"} THEN << >>
  ELSE LET player == st.players[st.currentPlayerIndex + 1]
           toCall == st.currentBet - player.bet
           raiseAmount == Min(Max(st.minRaise, st.bigBlind), player.chips - toCall)
       IN IF player.folded \/ player.allIn THEN << >>
          ELSE <<[name |-> "fold"]>>
               \o (IF toCall = 0 THEN <<[name |-> "check"]>>
                   ELSE IF toCall > 0 /\ player.chips > 0 THEN <<[name |-> "call"]>>
                   ELSE << >>)
               \o (IF player.chips > toCall /\ raiseAmount > 0
                   THEN <<[name |-> "raise", amount |-> raiseAmount]>> ELSE << >>)
               \o (IF player.chips > 0 THEN <<[name |-> "all_in"]>> ELSE << >>)

\* dealCommunityCards(state): three cards after the preflop, one after the
\* flop and the turn
dealCommunityCards(st) ==
  LET n == CASE st.round = "preflop" -> 3
             [] st.round \in {"flop", "turn"} -> 1
             [] OTHER -> 0
  IN [st EXCEPT !.communityCards = @ \o SubSeq(st.deck, st.deckIndex + 1,
                                                st.deckIndex + n),
                !.deckIndex = @ + n]

\* advanceRound(state)
advanceRound(st) ==
  IF st.round \notin {"preflop", "flop", "turn", "river"} THEN st
  ELSE LET newRound == CASE st.round = "preflop" -> "flop"
                         [] st.round = "flop" -> "turn"
                         [] st.round = "turn" -> "river"
                         [] st.round = "river" -> "showdown"
           newState == IF newRound # "showdown" THEN dealCommunityCards(st) ELSE st
           newPlayers == [i \in 1..Len(st.players) |->
                            [newState.players[i] EXCEPT !.bet = 0]]
           nextPlayer == getNextActivePlayer(newPlayers, st.dealerIndex, TRUE)
       IN [newState EXCEPT
             !.round = IF nextPlayer = -1 THEN "showdown" ELSE newRound,
             !.players = newPlayers,
             !.currentBet = 0,
             !.minRaise = st.bigBlind,
             !.currentPlayerIndex = IF nextPlayer = -1 THEN st.currentPlayerIndex
                                    ELSE nextPlayer,
             !.lastAggressor = -1,
             !.playersActedThisRound = {}]

\* texasHoldem.reset({seed, config, numPlayers})
StringHoldemReset(seed, config, numPlayers) ==
  LET or(key, default) == IF config.k = "obj" /\ Get(config, key) \notin {Undef, Null}
                          THEN Get(config, key).v ELSE default
      startingChips == or("startingChips", 1000)
      smallBlind == or("smallBlind", 10)
      bigBlind == or("bigBlind", 20)
      deck == StringHoldemShuffle(seed)
      sbIndex == IF numPlayers = 2 THEN 0 ELSE 1
      bbIndex == IF numPlayers = 2 THEN 1 ELSE 2 % numPlayers
      sbAmount == Min(smallBlind, startingChips)
      bbAmount == Min(bigBlind, startingChips)
      posted(s) == IF s = bbIndex THEN bbAmount
                   ELSE IF s = sbIndex THEN sbAmount ELSE 0
  IN [deck |-> deck,
      deckIndex |-> 2 * numPlayers,
      communityCards |-> << >>,
      players |-> [i \in 1..numPlayers |->
                     [hand |-> <<deck[(2 * i) - 1], deck[2 * i]>>,
                      chips |-> startingChips - posted(i - 1),
                      bet |-> posted(i - 1),
                      totalBet |-> posted(i - 1),
                      folded |-> FALSE,
                      allIn |-> (i - 1) \in {sbIndex, bbIndex}
                                /\ startingChips - posted(i - 1) = 0]],
      pot |-> sbAmount + bbAmount,
      currentBet |-> bbAmount,
      minRaise |-> bigBlind,
      round |-> "preflop",
      dealerIndex |-> 0,
      currentPlayerIndex |-> (bbIndex + 1) % numPlayers,
      lastAggressor |-> bbIndex,
      playersActedThisRound |-> {},
      numActivePlayers |-> numPlayers,
      smallBlind |-> smallBlind,
      bigBlind |-> bigBlind,
      handComplete |-> FALSE,
      winners |-> << >>]

\* texasHoldem.currentPlayer(state)
StringHoldemCurrentPlayer(st) ==
  IF st.handComplete \/ st.round \in {"showdown", "complete"} THEN -1
  ELSE st.currentPlayerIndex

\* texasHoldem.isTerminal(state)
StringHoldemIsTerminal(st) == st.handComplete \/ st.round = "complete"

\* the player of step after "Process action", with what the action added to
\* the pot
StringProcessAction(st, player, action) ==
  CASE action.name = "call" ->
         LET toCall == Min(st.currentBet - player.bet, player.chips)
         IN [player EXCEPT !.chips = @ - toCall, !.bet = @ + toCall,
                           !.totalBet = @ + toCall,
                           !.allIn = @ \/ player.chips - toCall = 0]
    [] action.name = "raise" ->
         LET actualBet == Min((st.currentBet - player.bet) + action.amount,
                              player.chips)
         IN [player EXCEPT !.chips = @ - actualBet, !.bet = @ + actualBet,
                           !.totalBet = @ + actualBet,
                           !.allIn = @ \/ player.chips - actualBet = 0]
    [] action.name = "all_in" ->
         [player EXCEPT !.chips = 0, !.bet = @ + player.chips,
                        !.totalBet = @ + player.chips, !.allIn = TRUE]
    [] action.name = "fold" -> [player EXCEPT !.folded = TRUE]
    [] OTHER -> player

\* step once the betting round is complete: the next round, and the showdown
\* when that is the round reached
StringAfterRound(st) ==
  IF st.round # "showdown" THEN st
  ELSE [st EXCEPT !.handComplete = TRUE, !.round = "complete",
                  !.winners = determineWinners(st.players, st.communityCards)]

\* texasHoldem.step({state, playerId, action}).state; the events it returns
\* are left out
StringHoldemStep(st, playerId, action) ==
  LET player == StringProcessAction(st, st.players[playerId + 1], action)
      newPlayers == [st.players EXCEPT ![playerId + 1] = player]
      newPot == st.pot + (player.totalBet - st.players[playerId + 1].totalBet)
      raised == action.name \in {"raise", "all_in"} /\ player.bet > st.currentBet
      newCurrentBet == IF raised THEN player.bet ELSE st.currentBet
      newMinRaise == IF raised THEN Max(st.minRaise, player.bet - st.currentBet)
                     ELSE st.minRaise
      newLastAggressor == IF raised THEN playerId ELSE st.lastAggressor
      newPlayersActed == (IF raised THEN {} ELSE st.playersActedThisRound)
                         \cup {playerId}
      activePlayers == countActivePlayers(newPlayers)
      nextPlayer == getNextActivePlayer(newPlayers, playerId, TRUE)
      newState == [st EXCEPT
                     !.players = newPlayers,
                     !.pot = newPot,
                     !.currentBet = newCurrentBet,
                     !.minRaise = newMinRaise,
                     !.lastAggressor = newLastAggressor,
                     !.playersActedThisRound = newPlayersActed,
                     !.currentPlayerIndex = IF nextPlayer = -1
                                            THEN st.currentPlayerIndex
                                            ELSE nextPlayer,
                     !.numActivePlayers = activePlayers]
  IN IF activePlayers = 1
     THEN [st EXCEPT
             !.players = newPlayers,
             !.pot = newPot,
             !.round = "complete",
             !.handComplete = TRUE,
             !.winners = <<(CHOOSE i \in 1..Len(newPlayers) :
                              ~newPlayers[i].folded) - 1>>]
     ELSE IF isBettingRoundComplete(newPlayers, newCurrentBet, newPlayersActed)
     THEN StringAfterRound(advanceRound(newState))
     ELSE newState

\* texasHoldem.getResults(state)
StringHoldemGetResults(st) ==
  IF st.winners = << >> THEN Threw
  ELSE LET potPerWinner == st.pot \div Len(st.winners)
           isDraw == Len(st.winners) > 1
           isWinner(s) == \E w \in 1..Len(st.winners) : st.winners[w] = s
       IN [players |-> [i \in 1..Len(st.players) |->
                          [playerId |-> i - 1,
                           score |-> IF isWinner(i - 1)
                                     THEN potPerWinner - st.players[i].totalBet
                                     ELSE -st.players[i].totalBet,
                           rank |-> IF isWinner(i - 1) THEN 1 ELSE 2,
                           stats |-> [hand |-> st.players[i].hand,
                                      folded |-> st.players[i].folded,
                                      allIn |-> st.players[i].allIn,
                                      finalChips |-> st.players[i].chips
                                                     + (IF isWinner(i - 1)
                                                        THEN potPerWinner ELSE 0)]]],
           winner |-> IF isDraw THEN -1 ELSE st.winners[1],
           isDraw |-> isDraw]

\* most steps taken in a hand of the string-action game
MaxStringTurns == 6

\* runMatch options for the string-action game: the default table, a table
\* of small stacks, one whose stacks are below the big blind, and the table
\* of the fold test
StringHoldemInputs ==
  LET table(chips, sb, bb) == Obj(<< <<"startingChips", Num(chips)>>,
                                     <<"smallBlind", Num(sb)>>,
                                     <<"bigBlind", Num(bb)>> >>)
  IN {[game |-> "texas_holdem", seed |-> s, gameConfig |-> c, numAgents |-> n] :
        s \in {"test-seed", "fold-test", "abc"},
        c \in {Undef, table(6, 1, 2), table(15, 10, 20)},
        n \in 2..MaxSeats}
     \cup {[game |-> "texas_holdem", seed |-> "fold-test",
            gameConfig |-> table(1000, 10, 20), numAgents |-> 2]}

InitStringHoldem ==
  /\ input \in StringHoldemInputs
  /\ wall = 0
  /\ pc = "string_init"
  /\ matchId = ""
  /\ state = [none |-> TRUE]
  /\ turnIndex = 0
  /\ events = << >>
  /\ onEventCalls = << >>
  /\ pending = NoPending
  /\ script = << >>
  /\ stepCalls = 0
  /\ lastStep = NoStep
  /\ run = 1
  /\ firstEvents = << >>
  /\ verdict = NoVerdict
  /\ inflight = << >>
  /\ LibIdle
  /\ runner = NoRunner

\* game.reset({seed, config, numPlayers: agents.length})
StringHoldemStart ==
  /\ pc = "string_init"
  /\ state' = StringHoldemReset(input.seed, input.gameConfig, input.numAgents)
  /\ pc' = "string_holdem"
  /\ UNCHANGED <<input, wall, matchId, turnIndex, events, onEventCalls, pending, script,
                 stepCalls, lastStep, run, firstEvents, verdict, inflight, runner, libVars>>

\* one pass of the game loop: the agent answers with one of legalActions
StringHoldemTurn ==
  /\ pc = "string_holdem"
  /\ ~StringHoldemIsTerminal(state)
  /\ turnIndex < MaxStringTurns
  /\ \E playerId \in {StringHoldemCurrentPlayer(state)} :
     \E legal \in {StringGetLegalActions(state)} :
     \E i \in 1..Len(legal) :
       /\ state' = StringHoldemStep(state, playerId, legal[i])
       /\ lastStep' = [called |-> TRUE, playerId |-> playerId, action |-> legal[i],
                       before |-> state]
  /\ turnIndex' = turnIndex + 1
  /\ UNCHANGED <<input, wall, pc, matchId, events, onEventCalls, pending, script,
                 stepCalls, run, firstEvents, verdict, inflight, runner, libVars>>

\* the loop has ended: game.getResults(state)
StringHoldemFinish ==
  /\ pc = "string_holdem"
  /\ StringHoldemIsTerminal(state)
  /\ verdict' = [kind |-> "results", results |-> StringHoldemGetResults(state)]
  /\ pc' = "string_done"
  /\ UNCHANGED <<input, wall, matchId, state, turnIndex, events, onEventCalls, pending,
                 script, stepCalls, lastStep, run, firstEvents, inflight, runner,
                 libVars>>

NextStringHoldem == StringHoldemStart \/ StringHoldemTurn \/ StringHoldemFinish

SpecStringHoldem == InitStringHoldem /\ [][NextStringHoldem]_vars

\* Hold'em in both of its implementations: the game of typed actions and
\* the game of string actions
InitBothHoldem == InitHoldem \/ InitStringHoldem

NextBothHoldem == NextHoldem \/ NextStringHoldem

SpecBothHoldem == InitBothHoldem /\ [][NextBothHoldem]_vars

-----------------------------------------------------------------------------
(* The runner service (packages/runner/src: queue, runner, index).  The     *)
(* matches table is a sequence in created_at order; a match is its status   *)
(* and the statuses it was given, in order.  Every interval callback of     *)
(* startPolling is a tick: its position, the match it found, whether its    *)
(* claim took effect, whether pollForJobs gave it a job, whether its        *)
(* completed update took effect, and its releaseJob calls.                  *)

MAX_CONCURRENT_MATCHES == 1

\* most interval callbacks of startPolling that run
MaxTicks == 3

\* most matches in the table
MaxMatches == 2

\* update({status}) of one row of the matches table
SetStatus(matches, id, status) ==
  [matches EXCEPT ![id] = [status |-> status, history |-> Append(@.history, status)]]

\* select("id").eq("status", "pending").order("created_at").limit(1): the
\* ids of the rows returned
OldestPending(matches) ==
  LET rows == {id \in 1..Len(matches) : matches[id].status = "pending"}
  IN IF rows = {} THEN << >>
     ELSE <<CHOOSE id \in rows : \A o \in rows : id <= o>>

\* releaseJob()
releaseJob(activeMatches) == Max(0, activeMatches - 1)

\* the update of the catch block of runMatch: the match is marked failed,
\* whatever its status; written says whether the update took effect
MarkFailed(matches, id, written) ==
  IF written THEN SetStatus(matches, id, "failed") ELSE matches

\* the service has started; the table holds pending matches
InitQueue ==
  /\ MatchIdle
  /\ ladder = << >>
  /\ ratings = << >>
  /\ rng = << >>
  /\ objects = << >>
  /\ \E n \in 1..MaxMatches :
       queue = [activeMatches |-> 0,
                matches |-> [id \in 1..n |-> [status |-> "pending",
                                              history |-> <<"pending">>]],
                ticks |-> << >>]

\* the interval fires: pollForJobs up to its first await.  With no free slot
\* it returns [] and the callback ends; else the select is sent
PollStarts ==
  /\ Len(queue.ticks) < MaxTicks
  /\ queue' = [queue EXCEPT
                 !.ticks = Append(@, [pc |-> IF queue.activeMatches
                                                  >= MAX_CONCURRENT_MATCHES
                                               THEN "done" ELSE "find",
                                      matchId |-> 0, claimed |-> FALSE,
                                      job |-> FALSE, written |-> FALSE,
                                      releases |-> 0])]
  /\ UNCHANGED <<matchVars, ladder, ratings, rng, objects>>

\* the select returns: an error or no row ends the callback, else the update
\* that claims the row is sent
FindReturns(t) ==
  /\ queue.ticks[t].pc = "find"
  /\ \E findError \in BOOLEAN :
     \E found \in {OldestPending(queue.matches)} :
       queue' = [queue EXCEPT
                   !.ticks[t] = IF findError \/ found = << >>
                                THEN [@ EXCEPT !.pc = "done"]
                                ELSE [@ EXCEPT !.pc = "claim", !.matchId = found[1]]]
  /\ UNCHANGED <<matchVars, ladder, ratings, rng, objects>>

\* the database runs update({status: "running"}).eq("id", matchId)
\* .eq("status", "pending"), or the request fails before: the row changes
\* only when the update is run while the row is pending
ClaimApplies(t) ==
  /\ queue.ticks[t].pc = "claim"
  /\ \E id \in {queue.ticks[t].matchId}, written \in BOOLEAN :
       queue' = IF written /\ queue.matches[id].status = "pending"
                THEN [queue EXCEPT !.matches = SetStatus(@, id, "running"),
                                   !.ticks[t].pc = "claimed",
                                   !.ticks[t].claimed = TRUE]
                ELSE [queue EXCEPT !.ticks[t].pc = "claimed"]
  /\ UNCHANGED <<matchVars, ladder, ratings, rng, objects>>

\* the answer to the claiming update arrives: {data: claimed, error:
\* claimError}.  Without a row changed, or with the answer lost, there is an
\* error and no data, and pollForJobs returns []; else activeMatches++ and the
\* callback awaits onJob(job), which is runMatch
ClaimReturns(t) ==
  /\ queue.ticks[t].pc = "claimed"
  /\ \E claimError \in IF queue.ticks[t].claimed THEN BOOLEAN ELSE {TRUE} :
       queue' = IF claimError
                THEN [queue EXCEPT !.ticks[t].pc = "done"]
                ELSE [queue EXCEPT !.activeMatches = @ + 1,
                                   !.ticks[t].pc = "job",
                                   !.ticks[t].job = TRUE]
  /\ UNCHANGED <<matchVars, ladder, ratings, rng, objects>>

\* runMatch has played the match and has sent update({status: "completed",
\* result}).eq("id", job.id); the database runs it, or the request fails
MatchCompletes(t) ==
  /\ queue.ticks[t].pc = "job"
  /\ \E written \in BOOLEAN :
       queue' = [queue EXCEPT
                   !.matches = IF written
                               THEN SetStatus(@, queue.ticks[t].matchId, "completed")
                               ELSE @,
                   !.ticks[t].pc = "completing",
                   !.ticks[t].written = written]
  /\ UNCHANGED <<matchVars, ladder, ratings, rng, objects>>

\* the answer to the completed update arrives: with an updateError, which an
\* update that took effect may have too, runMatch throws and its catch block
\* sends update({status: "failed"}); else update_elo is called
CompletedReturns(t) ==
  /\ queue.ticks[t].pc = "completing"
  /\ \E updateError \in IF queue.ticks[t].written THEN BOOLEAN ELSE {TRUE} :
       queue' = [queue EXCEPT
                   !.ticks[t].pc = IF updateError THEN "failing" ELSE "elo"]
  /\ UNCHANGED <<matchVars, ladder, ratings, rng, objects>>

\* runMatchWithGame or another await before the completed update rejects:
\* the catch block sends update({status: "failed"})
MatchThrows(t) ==
  /\ queue.ticks[t].pc = "job"
  /\ queue' = [queue EXCEPT !.ticks[t].pc = "failing"]
  /\ UNCHANGED <<matchVars, ladder, ratings, rng, objects>>

\* await supabase.rpc("update_elo") settles, still inside the try block: when
\* it rejects the catch block sends update({status: "failed"}); else runMatch
\* returns and the finally of the callback releases the slot
EloSettles(t) ==
  /\ queue.ticks[t].pc = "elo"
  /\ \E rejects \in BOOLEAN :
       queue' = IF rejects
                THEN [queue EXCEPT !.ticks[t].pc = "failing"]
                ELSE [queue EXCEPT !.activeMatches = releaseJob(@),
                                   !.ticks[t].pc = "done",
                                   !.ticks[t].releases = @ + 1]
  /\ UNCHANGED <<matchVars, ladder, ratings, rng, objects>>

\* the database runs the update of the catch block, or the request fails
FailedApplies(t) ==
  /\ queue.ticks[t].pc = "failing"
  /\ \E written \in BOOLEAN :
       queue' = [queue EXCEPT
                   !.matches = MarkFailed(@, queue.ticks[t].matchId, written),
                   !.ticks[t].pc = "failed"]
  /\ UNCHANGED <<matchVars, ladder, ratings, rng, objects>>

\* the await of the catch block is over, whatever the answer: runMatch
\* returns or rejects, and the finally of the callback releases the slot
FailedReturns(t) ==
  /\ queue.ticks[t].pc = "failed"
  /\ queue' = [queue EXCEPT !.activeMatches = releaseJob(@),
                            !.ticks[t].pc = "done",
                            !.ticks[t].releases = @ + 1]
  /\ UNCHANGED <<matchVars, ladder, ratings, rng, objects>>

\* "Another runner may have claimed it": the claiming update of a second
\* runner process takes effect on a pending match
OtherRunnerClaims ==
  /\ \E id \in 1..Len(queue.matches) :
       /\ queue.matches[id].status = "pending"
       /\ queue' = [queue EXCEPT !.matches = SetStatus(@, id, "running")]
  /\ UNCHANGED <<matchVars, ladder, ratings, rng, objects>>

NextQueue ==
  \/ PollStarts
  \/ OtherRunnerClaims
  \/ \E t \in 1..Len(queue.ticks) :
       \/ FindReturns(t)
       \/ ClaimApplies(t)
       \/ ClaimReturns(t)
       \/ MatchCompletes(t)
       \/ CompletedReturns(t)
       \/ MatchThrows(t)
       \/ EloSettles(t)
       \/ FailedApplies(t)
       \/ FailedReturns(t)

SpecQueue == InitQueue /\ [][NextQueue]_vars

-----------------------------------------------------------------------------
(* Properties *)

Turns == TurnsOf(events)

LastEvent == events[Len(events)]

\* the latest game.step call of the first run belongs to the turn the agents
\* answered last, in the way `kind` names
LatestIs(kind) ==
  /\ run = 1
  /\ lastStep.called
  /\ Len(script) = lastStep.turnIndex + 1
  /\ script[Len(script)].kind = kind

LatestAnswer == script[Len(script)].action

\* legalActions(state, player) of the latest game.step call
LatestLegal == LegalActions(input.game, lastStep.state, lastStep.playerId)

\* the TURN event of the latest game.step call
LatestTurnEvent == events[lastStep.turnIndex + 2]

\* C1: when runMatch returns, the events are one MATCH_START, then one TURN
\* per game.step call with turnIndex 0, 1, 2, ... in emission order, then one
\* MATCH_END; onEvent was called with the same sequence; totalTurns, in the
\* report and in MATCH_END, is the number of TURN events.
C1_EventSequence ==
  pc = "done" =>
    /\ Len(events) = stepCalls + 2
    /\ events[1].type = "MATCH_START"
    /\ LastEvent.type = "MATCH_END"
    /\ \A i \in 2..(Len(events) - 1) :
         events[i].type = "TURN" /\ events[i].turnIndex = i - 2
    /\ onEventCalls = events
    /\ LastEvent.totalTurns = Len(Turns)
    /\ Report.totalTurns = Len(Turns)

C1_Witness == pc = "done" /\ Len(Turns) >= 2 /\ stepCalls = Len(Turns)

\* C2: replayMatch on the log of a finished runMatch, with or without the
\* observation hash check, succeeds with no error and verifies every turn.
C2_ReplayAcceptsLog ==
  verdict.kind = "original" =>
    /\ verdict.result.success
    /\ verdict.result.errors = << >>
    /\ verdict.result.turnsVerified = LastEvent.totalTurns
    /\ verdict.result.totalTurns = LastEvent.totalTurns

C2_Witness ==
  /\ verdict.kind = "original"
  /\ verdict.result.success
  /\ \E i \in 1..Len(Turns) : Turns[i].timedOut
  /\ \E i \in 1..Len(Turns) : Turns[i].illegalAction

\* an event without its wall-clock fields, and without the match id when the
\* caller gave none
Timeless(e) ==
  CASE e.type = "MATCH_START" ->
         [e EXCEPT !.startedAt = 0,
                   !.matchId = IF input.matchId = Undef THEN "" ELSE @]
    [] e.type = "TURN" -> [e EXCEPT !.timingMs = 0]
    [] e.type = "MATCH_END" -> [e EXCEPT !.totalTimeMs = 0]

\* C3 as stated: the repeated run returns events equal to the first run's.
C3_SameEvents == (run = 2 /\ pc = "done") => events = firstEvents

\* C3 amended: the agents being deterministic under (matchId, turnIndex),
\* the repeated run's MATCH_START is that of the first run but for startedAt,
\* and but for matchId when options.matchId is not given; when the match id
\* is that of the first run (options.matchId given, or the generated ids the
\* same) the repeated run returns as many events as the first, equal to the
\* first run's in every field but startedAt, timingMs and totalTimeMs.
C3_SameEventsUnderSameId ==
  (run = 2 /\ pc = "done") =>
    /\ Timeless(events[1]) = Timeless(firstEvents[1])
    /\ input.matchId # Undef => matchId = firstEvents[1].matchId
    /\ matchId = firstEvents[1].matchId =>
         /\ Len(events) = Len(firstEvents)
         /\ \A i \in 1..Len(events) : Timeless(events[i]) = Timeless(firstEvents[i])

\* a repeated run under the first run's match id, with an illegal answer,
\* whose events differ from the first run's
C3_Witness ==
  /\ run = 2
  /\ pc = "done"
  /\ matchId = firstEvents[1].matchId
  /\ Len(Turns) >= 2
  /\ events # firstEvents
  /\ \E i \in 1..Len(Turns) : Turns[i].illegalAction

\* the two runs having generated different match ids, the agents, seeded
\* with the match id, may play another match: other actions, another number
\* of turns, other results
RunsDiverge ==
  /\ run = 2
  /\ pc = "done"
  /\ input.matchId = Undef
  /\ matchId # firstEvents[1].matchId
  /\ Len(events) # Len(firstEvents)
  /\ events[Len(events)].results # firstEvents[Len(firstEvents)].results

\* C4: a decide call that is still pending when the timer fires gives a TURN
\* with timedOut = true and action = legalActions[0]; the game is stepped
\* with that action and, the step having returned, the loop goes on.
C4_TimeoutFallback ==
  LatestIs("timeout") =>
    /\ lastStep.action = LatestLegal[1]
    /\ ~lastStep.threw =>
         /\ pc \in {"loop", "awaiting", "done"}
         /\ turnIndex = lastStep.turnIndex + 1
         /\ LatestTurnEvent.type = "TURN"
         /\ LatestTurnEvent.turnIndex = lastStep.turnIndex
         /\ LatestTurnEvent.timedOut
         /\ LatestTurnEvent.action = LatestLegal[1]
         /\ state = Step(input.game, lastStep.state, lastStep.playerId,
                         LatestLegal[1]).state

C4_Witness ==
  /\ LatestIs("timeout")
  /\ ~lastStep.threw
  /\ lastStep.turnIndex = 0
  /\ pc = "awaiting"
  /\ pending.turnIndex = 1

\* C5: an answer that is not a legal action gives a TURN with illegalAction =
\* true, originalAction = the answer and action = legalActions[0], which is
\* the action stepped; a legal answer is the action, with illegalAction false.
C5_IllegalFallback ==
  (LatestIs("return") /\ ~lastStep.threw) =>
    IF ~isLegalAction(LatestAnswer, LatestLegal)
    THEN /\ LatestTurnEvent.illegalAction
         /\ LatestTurnEvent.originalAction = LatestAnswer
         /\ LatestTurnEvent.action = LatestLegal[1]
         /\ lastStep.action = LatestLegal[1]
    ELSE /\ ~LatestTurnEvent.illegalAction
         /\ LatestTurnEvent.action = LatestAnswer
         /\ lastStep.action = LatestAnswer

\* C6: every action runMatch passes to game.step is a legal action of the
\* state and player it is stepped for.
C6_StepsLegalActions ==
  lastStep.called => isLegalAction(lastStep.action, LatestLegal)

C6_Witness ==
  /\ LatestIs("return")
  /\ ~isLegalAction(LatestAnswer, LatestLegal)
  /\ lastStep.action = LatestLegal[1]

\* C7: when decide throws, rejects or answers with nothing to read, the turn
\* is recorded as an illegal action with the fallback and runMatch goes on.
C7_AgentFailureRecovered ==
  (run = 1 /\ Len(script) > 0 /\ script[Len(script)].kind = "reject") =>
    /\ pc # "rejected"
    /\ Len(Turns) = Len(script)
    /\ Turns[Len(Turns)].illegalAction

\* C8: when game.step throws, the log runMatch leaves ends with MATCH_END.
C8_StepFailureEndsLog ==
  (lastStep.called /\ lastStep.threw) => LastEvent.type = "MATCH_END"

\* C9: a log with the action of one TURN event changed does not verify.
C9_AlteredActionRejected ==
  verdict.kind = "action" => ~verdict.result.success

\* C10: a log with one value of MATCH_END.results changed does not verify
\* and the errors name RESULTS_MISMATCH.
C10_AlteredResultsRejected ==
  verdict.kind = "results" =>
    /\ ~verdict.result.success
    /\ "RESULTS_MISMATCH" \in ErrorTypes(verdict.result.errors)

\* the log replayMatch was given in the latest verdict on a damaged log
AuditedLog == DamagedLog(input.game, events, verdict.defects)

\* number of errors of type t
ErrorCount(errors, t) == Cardinality({i \in 1..Len(errors) : errors[i].type = t})

\* C11: for a log holding MATCH_START and MATCH_END, replayMatch reports
\* SEED_MISMATCH, and fails, exactly when sha256(seedReveal) is not the
\* seedCommit; it reports none for the log as runMatch returned it.
C11_SeedMismatch ==
  (/\ verdict.kind = "damaged"
   /\ "start" \notin verdict.defects
   /\ "end" \notin verdict.defects) =>
    LET startEvent == FindEvent(AuditedLog, "MATCH_START")
        endEvent == FindEvent(AuditedLog, "MATCH_END")
        reported == "SEED_MISMATCH" \in ErrorTypes(verdict.result.errors)
    IN /\ reported <=> sha256(endEvent.seedReveal) # startEvent.seedCommit
       /\ reported => ~verdict.result.success
       /\ verdict.defects = {} =>
            /\ ~reported
            /\ startEvent.seedCommit = sha256(endEvent.seedReveal)

C11_Witness ==
  /\ verdict.kind = "damaged"
  /\ verdict.defects = {"reveal"}
  /\ "SEED_MISMATCH" \in ErrorTypes(verdict.result.errors)
  /\ ~verdict.result.success

\* the entry of errors that names defect d
Reported(d, errors) ==
  CASE d \in {"start", "end"} -> "MISSING_EVENT" \in ErrorTypes(errors)
    [] d \in {"commit", "reveal"} -> "SEED_MISMATCH" \in ErrorTypes(errors)
    [] d = "hash" ->
         \E i \in 1..Len(errors) :
           errors[i] = ReplayError("OBSERVATION_HASH_MISMATCH", Num(0))
    [] d = "action" ->
         \E i \in 1..Len(errors) : errors[i] = ReplayError("ACTION_ILLEGAL", Num(0))
    [] d = "results" -> "RESULTS_MISMATCH" \in ErrorTypes(errors)

\* C12: the errors replayMatch returns hold an entry for every defect of the
\* log, one per missing event.
C12_EveryDefectReported ==
  verdict.kind = "damaged" =>
    /\ \A d \in verdict.defects : Reported(d, verdict.result.errors)
    /\ {"start", "end"} \subseteq verdict.defects =>
         ErrorCount(verdict.result.errors, "MISSING_EVENT") = 2


\* the last step of Hold'em ended a hand, by a fold or by a showdown
HandEnded == lastStep.called /\ lastStep.kind \in {"fold_out", "showdown"}

\* the chips in all seats' stacks
HoldemChips(st) == SeqSum([i \in 1..Len(st.players) |-> st.players[i].chips])

\* C13: Hold'em: at the end of every hand, once the pots are awarded, the
\* seats' chips add up to numPlayers x startingChips
C13_ChipsConserved ==
  HandEnded =>
    HoldemChips(lastStep.settled)
      = lastStep.settled.config.numPlayers * lastStep.settled.config.startingChips


\* every seat still able to act has acted in the round and matched the bet
RoundSettled(st) ==
  \A i \in 1..Len(st.players) :
    AbleToAct(st.players[i]) =>
      /\ st.players[i].hasActed
      /\ st.players[i].currentBet = st.betting.currentBet

\* C14: Hold'em: a step that leaves more than one seat in the hand ends the
\* betting round (deals the next street or goes to showdown) exactly when
\* every seat that has not folded and is not all-in has acted in the round
\* and has a currentBet equal to the round's currentBet
C14_RoundEndsWhenSettled ==
  (lastStep.called /\ lastStep.kind # "fold_out") =>
    (lastStep.kind \in {"street", "showdown"} <=> RoundSettled(lastStep.settled))


\* what the last step of Hold'em added to the round's bet
RaisedBy ==
  lastStep.settled.players[lastStep.playerId + 1].currentBet
    - lastStep.before.betting.currentBet

\* the other seats that could still act when the last step was taken
OtherSeats ==
  {i \in 1..Len(lastStep.before.players) :
     i # lastStep.playerId + 1 /\ AbleToAct(lastStep.before.players[i])}

\* the last step was a bet, a raise or an all-in
Wagered == lastStep.called /\ lastStep.action.type \in {"bet", "raise", "all_in"}

\* a wager that raises by minRaise or more takes hasActed from every other
\* seat that can still act
C15_FullRaiseReopens ==
  (Wagered /\ RaisedBy >= lastStep.before.betting.minRaise) =>
    \A i \in OtherSeats : ~lastStep.settled.players[i].hasActed

\* an all-in that raises by less than minRaise leaves hasActed with the
\* seats that had acted
C15_ShortAllInKeeps ==
  (/\ Wagered
   /\ lastStep.settled.players[lastStep.playerId + 1].status = "all_in"
   /\ RaisedBy > 0
   /\ RaisedBy < lastStep.before.betting.minRaise) =>
    \A i \in OtherSeats :
      lastStep.before.players[i].hasActed => lastStep.settled.players[i].hasActed

\* C15: Hold'em: a bet, raise or all-in that raises by at least minRaise
\* resets hasActed for every other seat that is neither folded nor all-in,
\* and a legal all-in that raises by less than minRaise does not reopen
\* action for the seats that already acted
C15_ReopeningOfAction == C15_FullRaiseReopens /\ C15_ShortAllInKeeps


\* the pots calculatePots builds from the seats as the last step left them
StepPots == calculatePots(lastStep.settled.players)

\* the amounts invested in the hand, without 0
InvestedLevels ==
  {lastStep.settled.players[i].totalInvested : i \in 1..Len(lastStep.settled.players)}
    \ {0}

\* C16: calculatePots builds one pot per distinct totalInvested level, in
\* ascending order: its amount is (level - previous level) x the number of
\* seats that invested at least the level, its eligible players are exactly
\* the seats that invested at least the level and have not folded, and the
\* first pot alone is the main pot
C16_PotsByLevel ==
  lastStep.called =>
    LET players == lastStep.settled.players
        atLeast(level) == {i \in 1..Len(players) : players[i].totalInvested >= level}
    IN /\ Len(StepPots) = Cardinality(InvestedLevels)
       /\ \A k \in 1..Len(StepPots) :
            \E level \in InvestedLevels :
              LET below == {l \in InvestedLevels : l < level}
                  previous == IF below = {} THEN 0
                              ELSE CHOOSE l \in below : \A m \in below : m <= l
              IN /\ Cardinality(below) = k - 1
                 /\ StepPots[k].amount = (level - previous) * Cardinality(atLeast(level))
                 /\ {StepPots[k].eligiblePlayers[e] :
                       e \in 1..Len(StepPots[k].eligiblePlayers)}
                      = {players[i].id : i \in {j \in atLeast(level) :
                                                 players[j].status # "folded"}}
                 /\ StepPots[k].isMain = (k = 1)

\* a side pot that a seat of the main pot cannot win, with a folded seat's
\* chips in the pots
C16_Witness ==
  /\ lastStep.called
  /\ Len(StepPots) >= 2
  /\ StepPots[2].eligiblePlayers # StepPots[1].eligiblePlayers
  /\ \E i \in 1..Len(lastStep.settled.players) :
       /\ lastStep.settled.players[i].status = "folded"
       /\ lastStep.settled.players[i].totalInvested > 0


\* hole cards another seat might hold as well
OtherHoleCards == {<< >>, <<"As", "Ks">>, <<"2c", "7d">>}

\* C17: Hold'em: what a seat observes is the same in any state that differs
\* from the reachable one only in the hole cards of another seat
C17_ObserveHidesOtherCards ==
  pc = "holdem" =>
    \A p \in 1..Len(state.players), q \in 1..Len(state.players) :
      \A cards \in OtherHoleCards \cup {state.players[p].holeCards} :
        p # q =>
          HoldemObserve([state EXCEPT !.players[q].holeCards = cards], p - 1)
            = HoldemObserve(state, p - 1)

\* a hand under way in which the seat to act and another seat hold
\* different cards
C17_Witness ==
  /\ pc = "holdem"
  /\ lastStep.called
  /\ state.currentPlayer # -1
  /\ HoldemObserve(state, state.currentPlayer).holeCards # << >>
  /\ \E q \in 1..Len(state.players) :
       /\ q # state.currentPlayer + 1
       /\ state.players[q].holeCards
            \notin {<< >>, state.players[state.currentPlayer + 1].holeCards}


\* the seats' stacks, in seat order
ChipsOf(st) == [i \in 1..Len(st.players) |-> st.players[i].chips]

\* the seats the last step left in the hand
LiveSeats ==
  {i \in 1..Len(lastStep.settled.players) :
     lastStep.settled.players[i].status \notin {"folded", "sitting_out"}}

\* a fold that leaves one seat in the hand ends the hand at once: no card is
\* dealt, the seat left receives all that was invested in the hand and no
\* other stack changes
FoldOutPaysAll ==
  (lastStep.called /\ lastStep.action.type = "fold" /\ Cardinality(LiveSeats) = 1) =>
    /\ lastStep.kind = "fold_out"
    /\ lastStep.settled.isHandComplete
    /\ lastStep.settled.communityCards = lastStep.before.communityCards
    /\ \A i \in 1..Len(lastStep.settled.players) :
         lastStep.settled.players[i].chips
           = lastStep.before.players[i].chips
             + (IF i \in LiveSeats
                THEN SeqSum([j \in 1..Len(lastStep.before.players) |->
                               lastStep.before.players[j].totalInvested])
                ELSE 0)

\* two seats, startingChips 1000, blinds 10 and 20: seat 0 folds on its
\* first decision
FirstDecisionFold ==
  /\ lastStep.called
  /\ lastStep.before = HoldemReset(input.seed, input.gameConfig, input.numAgents)
  /\ lastStep.before.config
       = [numPlayers |-> 2, startingChips |-> 1000, smallBlind |-> 10, bigBlind |-> 20]
  /\ lastStep.playerId = 0
  /\ lastStep.action.type = "fold"

\* the seats of the string-action game that have not folded
StringLiveSeats == {i \in 1..Len(state.players) : ~state.players[i].folded}

\* the string-action game: a fold that leaves one seat in the hand ends the
\* hand at once: no card is dealt, the seat left is the one winner, and
\* getResults gives it its chips and all that was bet in the hand, and every
\* other seat the chips it had
StringFoldOutPaysAll ==
  (lastStep.called /\ lastStep.action.name = "fold"
     /\ Cardinality(StringLiveSeats) = 1) =>
    /\ state.handComplete
    /\ state.round = "complete"
    /\ state.communityCards = lastStep.before.communityCards
    /\ state.deckIndex = lastStep.before.deckIndex
    /\ \A i \in StringLiveSeats : state.winners = <<i - 1>>
    /\ \A i \in 1..Len(state.players) :
         StringHoldemGetResults(state).players[i].stats.finalChips
           = lastStep.before.players[i].chips
             + (IF i \in StringLiveSeats
                THEN SeqSum([j \in 1..Len(lastStep.before.players) |->
                               lastStep.before.players[j].totalBet])
                ELSE 0)

\* the string-action game: two seats, startingChips 1000, blinds 10 and 20:
\* seat 0 folds on its first decision
StringFirstDecisionFold ==
  /\ lastStep.called
  /\ lastStep.before
       = StringHoldemReset(input.seed, input.gameConfig, input.numAgents)
  /\ Len(lastStep.before.players) = 2
  /\ \A i \in 1..2 : lastStep.before.players[i].chips
                        + lastStep.before.players[i].totalBet = 1000
  /\ lastStep.before.smallBlind = 10
  /\ lastStep.before.bigBlind = 20
  /\ lastStep.playerId = 0
  /\ lastStep.action.name = "fold"

\* C18: Hold'em: a fold that leaves one seat ends the hand at once, without
\* hand evaluation, and the seat left receives every pot, everything
\* invested in the hand; with two seats, startingChips 1000 and blinds 10
\* and 20, the fold of seat 0 on its first decision ends the hand with seat
\* 1 the winner and the stacks at 990 and 1010. Stated of the game of typed
\* actions, where the stacks are those of the hand as step settles it, and
\* of the game of string actions, where they are the finalChips of
\* getResults
C18_FoldOutEndsHand ==
  /\ pc = "holdem" =>
       /\ FoldOutPaysAll
       /\ FirstDecisionFold =>
            /\ lastStep.kind = "fold_out"
            /\ lastStep.settled.isHandComplete
            /\ LiveSeats = {2}
            /\ ChipsOf(lastStep.settled) = <<990, 1010>>
  /\ pc \in {"string_holdem", "string_done"} =>
       /\ StringFoldOutPaysAll
       /\ StringFirstDecisionFold =>
            /\ state.handComplete
            /\ state.winners = <<1>>
            /\ [i \in 1..2 |->
                  StringHoldemGetResults(state).players[i].stats.finalChips]
                 = <<990, 1010>>

\* seat 0 has folded on its first decision in the two-seat example
C18_Witness == pc = "holdem" /\ FirstDecisionFold /\ lastStep.kind = "fold_out"


\* C19: Hold'em: in every reachable state currentPlayer(state) is none
\* exactly when isTerminal(state) is true
C19_NoPlayerIffTerminal ==
  pc = "holdem" => (HoldemCurrentPlayer(state) = -1 <=> HoldemIsTerminal(state))


\* C20: Hold'em: a match whose number of agents Hold'em does not support is
\* not played (reset fails), and a match that is played has as many seats
\* as agents
C20_SeatsMatchAgents ==
  pc = "holdem" =>
    /\ input.numAgents \in HoldemNumPlayers
    /\ Len(state.players) = input.numAgents


\* a decide call that had lost the race settles in this step
LateStep ==
  \E i \in 1..Len(inflight) :
    inflight[i].call = "running" /\ inflight'[i].call # "running"

\* the race of every decide call that timed out holds the timer's null,
\* whether the call is still running or has settled since, and the TURN
\* event of its turn is marked timedOut and carries the first legal action
TimedOutTurnsKeepFallback ==
  \A i \in 1..Len(inflight) :
    /\ inflight[i].race = [settled |-> TRUE, value |-> Null]
    /\ \A j \in 1..Len(events) :
         (events[j].type = "TURN" /\ events[j].turnIndex = inflight[i].turnIndex) =>
           /\ events[j].timedOut
           /\ events[j].action = FirstLegal(inflight[i].legalActions)

\* C21: runMatch goes on while a decide call that timed out is still
\* running, and the late answer or failure of that call is discarded: it
\* changes neither the action of its turn or of a later turn nor what
\* runMatch has logged, holds as state and returns
C21_LateAnswerDiscarded ==
  /\ []TimedOutTurnsKeepFallback
  /\ [][LateStep =>
          UNCHANGED <<pc, matchId, state, turnIndex, events, onEventCalls, pending,
                      stepCalls, lastStep>>]_vars

\* runMatch has finished, with a later turn played after a turn that timed
\* out, and the call of that turn has answered since
C21_Witness ==
  /\ pc = "done"
  /\ \E i \in 1..Len(inflight) :
       /\ inflight[i].call = "resolved"
       /\ inflight[i].turnIndex + 1 < turnIndex

\* the sequence numbers runMatchWithGame has passed to params.onEvent, in
\* emission order
Forwarded == [k \in 1..Len(runner.inserts) |-> runner.inserts[k].sequence - 1]

\* C22: the k-th event the orchestrator emits (k = 0, 1, 2, ...) is forwarded
\* with sequence number k, and the sequence numbers persisted for the match
\* are distinct, whatever the order of pending inserts and agent decisions
C22_SequenceIsEmissionIndex ==
  runner.attached =>
    /\ Len(runner.inserts) = Len(onEventCalls)
    /\ \A k \in 1..Len(runner.inserts) : Forwarded[k] = k - 1
    /\ \A i, j \in 1..Len(runner.persisted) :
         i # j => runner.persisted[i].sequence # runner.persisted[j].sequence

\* nothing is awaited between the last TURN and MATCH_END: in every finished
\* match with a turn the two are forwarded with the same sequence number
LastTurnAndEndShareSequence ==
  (runner.attached /\ pc = "done" /\ Len(runner.inserts) >= 3) =>
    Forwarded[Len(runner.inserts)] = Forwarded[Len(runner.inserts) - 1]

\* the call before was decisive between two different players of equal rating
DecisiveBetweenEquals ==
  /\ ratings.update # NoUpdate
  /\ ratings.update.winnerId # Null
  /\ ratings.update.loserId # ratings.update.winnerId
  /\ ratings.update.winnerOldRating = ratings.update.loserOldRating

\* C25: for two players of equal integer ratings, a decisive recordMatch
\* changes the winner's rating by the absolute value of the change to the
\* loser's: winnerDelta = -loserDelta, for any K-factor
C25_EqualRatingsZeroSum ==
  DecisiveBetweenEquals =>
    /\ ratings.update.winnerDelta = 0 - ratings.update.loserDelta
    /\ ratings.update.winnerNewRating - ratings.update.winnerOldRating
         = ratings.update.loserOldRating - ratings.update.loserNewRating

\* C26: after any sequence of recordMatch calls, with setRating calls among
\* them or not and no import, every player's record has
\* matches = wins + losses + draws
C26_MatchesAreCounted ==
  (ratings # << >> /\ ratings.imports = 0) =>
    \A i \in 1..Len(ratings.elo.players) :
      LET p == ratings.elo.players[i]
      IN p.matches = p.wins + p.losses + p.draws

\* three calls made, and some player has a win, a loss and a draw
C26_Witness ==
  /\ ratings # << >>
  /\ ratings.calls = 3
  /\ \E i \in 1..Len(ratings.elo.players) :
       LET p == ratings.elo.players[i]
       IN p.wins = 1 /\ p.losses = 1 /\ p.draws = 1 /\ p.matches = 3

\* C28: generators created independently from one seed, at any time and
\* beside any other generators, return the same nextUint32 values, call for
\* call, however their calls are interleaved, and every value is in
\* [0, 2^32)
C28_SameSeedSameSequence ==
  /\ \A j \in 1..Len(rng) : \A k \in 1..Len(rng) :
       rng[j].seed = rng[k].seed =>
         \A i \in 1..Len(rng[j].drawn) :
           i <= Len(rng[k].drawn) => rng[j].drawn[i] = rng[k].drawn[i]
  /\ \A k \in 1..Len(rng) : \A i \in 1..Len(rng[k].drawn) :
       Len(rng[k].drawn[i]) <= 32

\* two generators of one seed have been asked three times or more, one of
\* them more often than the other, and the numbers drawn are not all the
\* same number
C28_Witness ==
  /\ Len(rng) = 2
  /\ rng[1].seed = rng[2].seed
  /\ Len(rng[1].drawn) >= 3
  /\ Len(rng[2].drawn) > Len(rng[1].drawn)
  /\ rng[1].drawn[1] # rng[1].drawn[2]
  /\ rng[2].state # rng[1].state

\* C23: a second runLadder with the same seed, agents and config gives the
\* same winner of every match, in order, the same final ratings and the
\* same leaderboard
C23_LadderIsAFunctionOfItsInputs ==
  (ladder # << >> /\ ladder.run = 2 /\ ladder.returned) =>
    /\ WinnersOf(ladder.matches) = ladder.first.winners
    /\ ratings.elo.players = ladder.first.players
    /\ ladder.leaderboard = ladder.first.leaderboard

\* the k-th pair (i, j), i < j, in lexicographic order, for k = 1, 2, ...
LexPair(n, k) ==
  LET PairSet == {p \in (1..n) \X (1..n) : p[1] < p[2]}
      Lower(p) == {q \in PairSet : q[1] < p[1] \/ (q[1] = p[1] /\ q[2] < p[2])}
  IN CHOOSE p \in PairSet : Cardinality(Lower(p)) = k - 1

\* C24: the result holds n(n-1)/2 x matchesPerPair matches: for each pair
\* (i, j), i < j, in lexicographic order, matchesPerPair matches, the two
\* seats swapped in the odd-indexed ones
C24_RoundRobinOrder ==
  (ladder # << >> /\ ladder.returned) =>
    LET n == Len(ladder.agents)
        m == matchesPerPairOf(ladder.config)
    IN /\ Len(ladder.matches) = ((n * (n - 1)) \div 2) * m
       /\ \A k \in 1..Len(ladder.matches) :
            LET p == LexPair(n, ((k - 1) \div m) + 1)
                matchNum == (k - 1) % m
                a == ladder.agents[p[1]].id
                b == ladder.agents[p[2]].id
            IN /\ ladder.matches[k].player1 = a
               /\ ladder.matches[k].player2 = b
               /\ ladder.matches[k].seats =
                    IF matchNum % 2 = 1 THEN <<b, a>> ELSE <<a, b>>

\* a ladder of three agents and two matches per pair has returned
C24_Witness ==
  /\ ladder # << >>
  /\ ladder.returned
  /\ Len(ladder.agents) = 3
  /\ Len(ladder.matches) = 6
  /\ ladder.matches[4].seats = <<Str("bob"), Str("alice")>>

\* the same logical value: objects with the same keys and the same values
\* under them, in whatever order; arrays element by element
RECURSIVE SameValue(_, _)
SameValue(x, y) ==
  IF x.k # y.k THEN FALSE
  ELSE IF x.k = "obj"
  THEN /\ {x.v[i][1] : i \in 1..Len(x.v)} = {y.v[i][1] : i \in 1..Len(y.v)}
       /\ \A i \in 1..Len(x.v) : SameValue(x.v[i][2], Get(y, x.v[i][1]))
  ELSE IF x.k = "arr"
  THEN /\ Len(x.v) = Len(y.v)
       /\ \A i \in 1..Len(x.v) : SameValue(x.v[i], y.v[i])
  ELSE x = y

\* C27: two values that are the same logical value, with object keys listed
\* in a different order at any nesting level, have the same hashObject
C27_KeyOrderDoesNotMatter ==
  (objects # << >> /\ objects.hashed
     /\ SameValue(objects.computed, objects.logged)) =>
    objects.observationHash = objects.loggedHash

\* the same value with the keys in another order at both levels was hashed
C27_Witness ==
  /\ objects # << >>
  /\ objects.hashed
  /\ SameValue(objects.computed, objects.logged)
  /\ ObjectKeys(objects.computed) # ObjectKeys(objects.logged)
  /\ ObjectKeys(Get(objects.computed, "history").v[1])
       # ObjectKeys(Get(objects.logged, "history").v[1])

\* C29: two observations have the same hash only if they are structurally
\* equal: a difference in any nested field gives different hashes, and the
\* replay reports the mismatch
C29_NestedDifferenceChangesHash ==
  (objects # << >> /\ objects.hashed
     /\ ~SameValue(objects.computed, objects.logged)) =>
    /\ objects.observationHash # objects.loggedHash
    /\ objects.mismatch

\* chips are in the pots or in front of the seats of a hand not yet resolved
ChipsCommitted(st) == ~st.isHandComplete /\ getTotalPot(st) > 0

\* C30: Hold'em: isTerminal(state) is true only when exactly one seat has
\* chips and no chips are committed to an unresolved hand, so that the match
\* does not end while a hand is in progress
C30_TerminalOnlyBetweenHands ==
  (pc = "holdem" /\ HoldemIsTerminal(state)) =>
    /\ Cardinality({i \in 1..Len(state.players) : state.players[i].chips > 0}) = 1
    /\ ~ChipsCommitted(state)

\* C31: when replayMatch returns success, every TURN event the match wrote
\* was replayed: turnsVerified is the totalTurns of MATCH_END, and a log that
\* lost trailing TURN events does not verify.
C31_SuccessMeansFullReplay ==
  (verdict.kind = "truncated" /\ verdict.result.success) =>
    /\ verdict.result.turnsVerified = LastEvent.totalTurns
    /\ verdict.removed = 0

\* legalActions({state, playerId}) of the state the latest step was given
StepLegalActions == HoldemLegalActions(lastStep.before, lastStep.playerId)

\* C32: Hold'em: an action step applied as given, without its fallback to
\* the first legal action, is a member of legalActions(state, seat) under
\* actionEquals.
C32_StepAcceptsOnlyListed ==
  (/\ pc = "holdem"
   /\ lastStep.called
   /\ lastStep.action # StepLegalActions[1]) =>
    isLegalAction(TexasHoldemAction(lastStep.action),
                  [i \in 1..Len(StepLegalActions) |->
                     TexasHoldemAction(StepLegalActions[i])])

\* C33: an agent action with the same fields and values as a legal action,
\* its keys in any order, is treated as legal: illegalAction is false and
\* the action is the one stepped.
C33_LegalInAnyKeyOrder ==
  (/\ pc = "idle"
   /\ objects # << >>
   /\ objects.validated
   /\ \E i \in 1..Len(objects.legal) : SameValue(objects.rawAction, objects.legal[i])) =>
    /\ ~objects.illegalAction
    /\ objects.action = objects.rawAction

\* C34: a Hold'em match whose every decision falls back to legalActions[0]
\* reaches a terminal state after finitely many turns.  Such play never
\* reaches a showdown unless a blind puts a seat all-in, so the course of a
\* hand is a function of the position it starts in: a match that ends never
\* starts two hands in the same position.
C34_FallbackPlayProgresses ==
  (pc = "holdem" /\ objects # << >>) =>
    \A i \in 1..Len(objects) : \A j \in 1..Len(objects) :
      i < j => objects[i] # objects[j]

\* the step before started a hand: it ended one and the match went on
HandStarted == HandEnded /\ ~isMatchOver(lastStep.settled)

\* C35: Hold'em: at the start of every hand the button is on the next seat
\* with chips after the previous button, the blinds are posted by two
\* distinct seats with chips and a seat without chips sits out; heads-up,
\* the button posts the small blind and, unless that puts it all-in, acts
\* first.
C35_BlindsFromLiveSeats ==
  (pc = "holdem" /\ HandStarted) =>
    LET n == Len(state.players)
        live == {i \in 1..n : lastStep.settled.players[i].chips > 0}
        after(k) == ((lastStep.settled.buttonPosition + k) % n) + 1
        posted == {i \in 1..n : state.players[i].currentBet > 0}
    IN /\ state.buttonPosition + 1 \in live
       /\ \A k \in 1..n : after(k) \in live =>
            \E j \in 1..k : after(j) = state.buttonPosition + 1
       /\ Cardinality(posted) = 2
       /\ posted \subseteq live
       /\ \A i \in (1..n) \ live : state.players[i].status = "sitting_out"
       /\ n = 2 =>
            /\ state.players[state.buttonPosition + 1].currentBet
                 = Min(state.config.smallBlind,
                       lastStep.settled.players[state.buttonPosition + 1].chips)
            /\ state.players[state.buttonPosition + 1].chips > 0 =>
                 state.currentPlayer = state.buttonPosition

\* C36: the TURN event of a turn has timedOut = true if and only if the timer
\* fired while decide was still pending: a decision that completed in time
\* is not recorded as timed out, whatever it returned.
C36_TimedOutIffTimerWon ==
  ((LatestIs("timeout") \/ LatestIs("return")) /\ ~lastStep.threw) =>
    (LatestTurnEvent.timedOut <=> LatestIs("timeout"))

\* the matches of the ladder so far that agent id took part in and whose
\* report is a draw (drawn TRUE), or names the seat of id as the winner
\* (drawn FALSE, won TRUE) or the other seat (drawn FALSE, won FALSE)
MatchesOf(id, drawn, won) ==
  {k \in 1..Len(ladder.matches) :
     LET m == ladder.matches[k]
         res == m.match.results
     IN /\ id \in {m.seats[1], m.seats[2]}
        /\ (res.isDraw = Bool(TRUE)) = drawn
        /\ ~drawn => ((m.seats[res.winner.v + 1] = id) = won)}

\* C37: runLadder: the winnerId of a match is the id of the agent in the
\* winning seat of that match, in the seat-swapped matches too, and null for
\* a draw; the ratings count for each agent the wins, losses and draws of
\* the matches so decided.
C37_WinnerIsWinningSeat ==
  ladder # << >> =>
    /\ \A k \in 1..Len(ladder.matches) :
         LET m == ladder.matches[k]
             res == m.match.results
         IN m.winnerId = IF res.isDraw = Bool(TRUE) THEN Null
                         ELSE m.seats[res.winner.v + 1]
    /\ \A i \in 1..Len(ratings.elo.players) :
         LET pl == ratings.elo.players[i]
         IN /\ pl.wins = Cardinality(MatchesOf(pl.playerId, FALSE, TRUE))
            /\ pl.losses = Cardinality(MatchesOf(pl.playerId, FALSE, FALSE))
            /\ pl.draws = Cardinality(MatchesOf(pl.playerId, TRUE, TRUE))

\* a seat-swapped match was won from the first seat by the pair's second
\* agent, and an earlier match was drawn
C37_Witness ==
  /\ ladder # << >>
  /\ \E k \in 1..Len(ladder.matches) :
       /\ ladder.matches[k].seats[1] = ladder.matches[k].player2
       /\ ladder.matches[k].match.results.winner = Num(0)
       /\ ladder.matches[k].winnerId = ladder.matches[k].player2
  /\ \E k \in 1..Len(ladder.matches) : ladder.matches[k].winnerId = Null

\* what the winner in seat w of a settled hand may be paid when every seat's
\* stake is matched up to the winner's own: from each seat its totalBet, and
\* no more than the totalBet of the winner
MatchedStakes(st, w) ==
  SeqSum([i \in 1..Len(st.players) |->
            Min(st.players[i].totalBet, st.players[w + 1].totalBet)])

\* C38: string-action Hold'em: a hand in which a seat is all-in is settled
\* with side pots: getResults pays a winner, from each seat, no more than the
\* winner's own totalBet.
C38_AllInSettledWithSidePots ==
  (verdict.kind = "results" /\ \E i \in 1..Len(state.players) : state.players[i].allIn)
    => \A w \in 1..Len(state.winners) :
         LET res == verdict.results.players[state.winners[w] + 1]
         IN res.stats.finalChips - state.players[state.winners[w] + 1].chips
              <= MatchedStakes(state, state.winners[w])

\* the ticks whose claim took effect and whose job has not settled
JobsInProgress ==
  {t \in 1..Len(queue.ticks) :
     queue.ticks[t].pc \in {"job", "completing", "elo", "failing", "failed"}}

\* C39: job queue: under every interleaving of ticks, claims and completions
\* 0 <= activeMatches <= MAX_CONCURRENT_MATCHES and the runner has at most
\* one claimed match in progress; a callback that has ended has released the
\* slot once if pollForJobs gave it a job, and never otherwise.
C39_AtMostOneActiveMatch ==
  /\ queue.activeMatches >= 0
  /\ queue.activeMatches <= MAX_CONCURRENT_MATCHES
  /\ Cardinality(JobsInProgress) <= MAX_CONCURRENT_MATCHES
  /\ \A t \in 1..Len(queue.ticks) :
       queue.ticks[t].pc = "done" =>
         queue.ticks[t].releases = IF queue.ticks[t].job THEN 1 ELSE 0

\* the orders in which a match may be given its statuses
ForwardHistories ==
  {<<"pending">>, <<"pending", "running">>,
   <<"pending", "running", "completed">>, <<"pending", "running", "failed">>}

\* C40: the status of a match only moves forward, pending, running, then
\* completed or failed: it is set to running only from pending, and a match
\* marked completed is never marked failed afterwards.
C40_StatusMovesForward ==
  \A id \in 1..Len(queue.matches) : queue.matches[id].history \in ForwardHistories

=============================================================================
